---- MODULE Spec2Model ----
(***************************************************************************)
(* django-postgres-copy: the bulk load pipeline.                           *)
(*                                                                         *)
(* CopyQuerySet.from_csv (managers.py) sequences the suspension of         *)
(* constraints and indexes around CopyMapping.save (copy_from.py), which   *)
(* drives drop-staging, create-staging, copy-in, merge-insert and          *)
(* drop-staging on one cursor.  The database engine, the schema editor and *)
(* the transaction state are collaborators: their answers are inputs.      *)
(***************************************************************************)
EXTENDS Integers, Sequences, FiniteSets, TLC

VARIABLES
    pc,         \* position of the running from_csv call
    call,       \* arguments and locals of the current call
    atomic,     \* aliases whose connection has an atomic block open
    db,         \* per alias: schema objects in force, target rows, staging table
    csv_file,   \* the file object the mapping reads its source from
    log,        \* database operations executed by the current call, in order
    result,     \* outcome of the current call
    hooks,      \* hook methods run by the current call, in order
    ncalls,     \* operations started so far
    model,      \* the model whose manager is used
    destination,\* the file object or file an export writes to
    chunks,     \* the chunks the running COPY ... TO STDOUT hands over
    relations,  \* the rows of the source, the staging table and the target table
    loads,      \* per loader: the from_csv call it runs on its own connection
    statement   \* the mapping a merge-insert is generated for, and the statement

vars == <<pc, call, atomic, db, csv_file, log, hooks, result, ncalls, model,
          destination, chunks, relations, loads, statement>>

\* ---------------------------------------------------------------- bounds
MaxCalls == 2
MaxSteps == 5
MaxRefusals == 1
MaxChars == 2
MaxBatch == 2
MaxMapped == 2

\* ------------------------------------------------------- the environment
Absent == "absent"

\* settings.DATABASES of the deployment: two PostgreSQL servers and SQLite
Aliases == {"default", "other", "sqlite"}
PgAliases == {"default", "other"}
DEFAULT_DB_ALIAS == "default"

Vendor(alias) == IF alias = "sqlite" THEN "sqlite" ELSE "postgresql"

\* server_version_num of each server ("other" predates ON CONFLICT)
PgVersion(alias) == IF alias = "other" THEN 90400 ELSE 140000

Keys == {"k1", "k2", "k3"}

\* schema objects a model can declare on its table
UniqueObjs == {"unique_together", "unique_col", "constraint"}
ConstraintObjs == {"unique_together", "fk_constraint", "constraint"}
IndexObjs == {"index_together", "field_index", "index"}

\* models: the fields and the schema objects each declares
ModelFields == {"name", "number", "static_val"}

Models == {
    [name |-> "MockObject",
     declared |-> {"unique_together", "fk_constraint", "index_together", "field_index"}],
    [name |-> "UniqueMockObject",
     declared |-> {"unique_col"}],
    [name |-> "ConstraintMockObject",
     declared |-> {"constraint", "index"}]
}

\* source files: path present, header record, data records, body quality, and
\* how the caller gives the source: as a path, or as a file object it opened
\* in text or in binary mode
Names == [path |-> "names.csv", exists |-> TRUE, headers |-> <<"NAME", "NUMBER">>,
          rows |-> <<"k1", "k2">>, body |-> "ok", given |-> "path"]
MatchingHeaders == [path |-> "matching_headers.csv", exists |-> TRUE,
                    headers |-> <<"name", "number">>, rows |-> <<"k3">>, body |-> "ok",
                    given |-> "path"]
Ragged == [path |-> "ragged.csv", exists |-> TRUE, headers |-> <<"NAME", "NUMBER">>,
           rows |-> <<"k1">>, body |-> "ragged", given |-> "path"]
Letters == [path |-> "letters.csv", exists |-> TRUE, headers |-> <<"NAME", "NUMBER">>,
            rows |-> <<"k2">>, body |-> "uncastable", given |-> "path"]
Foobar == [path |-> "foobar.csv", exists |-> FALSE, headers |-> <<>>,
           rows |-> <<>>, body |-> "ok", given |-> "path"]
NamesFile == [Names EXCEPT !.given = "text"]
NamesBinary == [Names EXCEPT !.given = "binary"]

CsvFiles == {Names, MatchingHeaders, Ragged, Letters, Foobar, NamesFile, NamesBinary}

\* mapping argument: ordered (field, header) pairs; <<>> is None
GoodMapping == << <<"name", "NAME">>, <<"number", "NUMBER">> >>
BadHeader == << <<"name", "NAME1">>, <<"number", "NUMBER">> >>
BadField == << <<"name1", "NAME">>, <<"number", "NUMBER">> >>
BadBoth == << <<"name1", "NAME1">> >>
\* a mapping that leaves a header of the file out
Limited == << <<"name", "NAME">> >>

Mappings == {<<>>, GoodMapping, BadHeader, BadField, BadBoth, Limited}

\* static_mapping argument: ordered (field, value) pairs; <<>> is None
GoodStatic == << <<"static_val", "1">> >>
BadStatic == << <<"missing", "1">> >>

StaticMappings == {<<>>, GoodStatic, BadStatic}

\* the sources loaded: a file, a mapping and a static mapping
Source(c, m, s) == [csv |-> c, mapping |-> m, static_mapping |-> s]

Sources == {
    Source(Names, GoodMapping, <<>>),
    Source(Names, GoodMapping, GoodStatic),
    Source(Names, Limited, <<>>),
    Source(NamesFile, GoodMapping, <<>>),
    Source(NamesBinary, GoodMapping, <<>>),
    Source(MatchingHeaders, <<>>, <<>>),
    Source(Ragged, GoodMapping, <<>>),
    Source(Letters, GoodMapping, <<>>),
    Source(Foobar, GoodMapping, <<>>),
    Source(Foobar, BadHeader, BadStatic),
    Source(Names, <<>>, <<>>),
    Source(Names, BadHeader, <<>>),
    Source(Names, BadField, <<>>),
    Source(Names, BadBoth, BadStatic),
    Source(Names, GoodMapping, BadStatic)
}

\* on_conflict argument: a dict with optional keys
NoConflict == [action |-> Absent, target |-> Absent, columns |-> Absent]
OnConflicts == {
    NoConflict,
    [action |-> "ignore", target |-> Absent, columns |-> Absent],
    [action |-> "update", target |-> "constraint", columns |-> "given"],
    [action |-> "update", target |-> "column", columns |-> "given"],
    [action |-> "update", target |-> Absent, columns |-> "given"],
    [action |-> "update", target |-> "column", columns |-> Absent],
    [action |-> "replace", target |-> Absent, columns |-> Absent]
}

Truthy(d) == d.action # Absent \/ d.target # Absent \/ d.columns # Absent

Usings == {"None", "other", "sqlite"}

\* ignore_conflicts and on_conflict as callers combine them
Conflicts ==
    {[ignore_conflicts |-> FALSE, on_conflict |-> oc] : oc \in OnConflicts}
    \cup {[ignore_conflicts |-> TRUE, on_conflict |-> NoConflict]}

\* arguments of from_csv and of CopyMapping
Arguments == {
    [csv |-> s.csv, mapping |-> s.mapping, static_mapping |-> s.static_mapping,
     using |-> u, ignore_conflicts |-> c.ignore_conflicts, on_conflict |-> c.on_conflict,
     drop_constraints |-> dc, drop_indexes |-> di] :
    s \in Sources, u \in Usings, c \in Conflicts, dc \in BOOLEAN, di \in BOOLEAN
}

AtomicStates == {{}, {"default"}, {"other"}}

\* ------------------------------------------------------------ exceptions
NoExc == [type |-> "none", msg |-> ""]
Exc(t, m) == [type |-> t, msg |-> m]

Range(s) == {s[i] : i \in DOMAIN s}

\* ------------------------------------------- CopyMapping: construction
is_postgresql_9_5(alias) == PgVersion(alias) >= 90500

get_field(name) == name \in ModelFields

\* a file object: records are counted from the header record, pos is the
\* number of records already read, owner is who opened it
NoFile == [state |-> "none", mode |-> "text", pos |-> 0, owner |-> "none"]

open(csv) == [state |-> "open", mode |-> "text", pos |-> 0, owner |-> "mapping"]

\* the object a caller passes instead of a path
Passed(csv) == [state |-> "open", mode |-> csv.given, pos |-> 0, owner |-> "caller"]

Records(csv) == 1 + Len(csv.rows)

\* the fields of the record a reader positioned at pos returns next
NextRecord(csv, pos) ==
    IF pos = 0 THEN csv.headers
    ELSE IF pos < Records(csv) THEN <<csv.rows[pos]>>
    ELSE <<>>

seek(f, offset) == [f EXCEPT !.pos = offset]

\* next(csv.reader(f)): one record is read from a text file; a binary file
\* hands over bytes, which csv refuses after the line has been read
csv_reader_next(csv, f) ==
    [headers |-> IF f.mode = "text" THEN NextRecord(csv, f.pos) ELSE <<>>,
     f |-> seek(f, IF f.pos < Records(csv) THEN f.pos + 1 ELSE f.pos),
     exc |-> IF f.mode = "text" THEN NoExc ELSE Exc("csv.Error", "iterator should return strings")]

\* next(csv.reader(TextIOWrapper(f))) and detach(): the wrapper decodes a
\* buffer that holds the whole file, then lets go of f without closing it
text_file_next(csv, f) ==
    [headers |-> NextRecord(csv, f.pos), f |-> seek(f, Records(csv)), exc |-> NoExc]

get_headers_without_rewind(csv, f) ==
    LET r1 == csv_reader_next(csv, f)
        r2 == text_file_next(csv, seek(r1.f, 0))
    IN  IF r1.exc = NoExc
        THEN [headers |-> r1.headers, f |-> r1.f]
        ELSE [headers |-> r2.headers, f |-> r2.f]

get_headers(csv, f) ==
    LET r1 == csv_reader_next(csv, f)
        r2 == text_file_next(csv, seek(r1.f, 0))
    IN  IF r1.exc = NoExc
        THEN [headers |-> r1.headers, f |-> seek(r1.f, 0)]
        ELSE [headers |-> r2.headers, f |-> seek(r2.f, 0)]

get_mapping(mapping, headers) ==
    IF mapping # <<>> THEN mapping
    ELSE [i \in DOMAIN headers |-> <<headers[i], headers[i]>>]

validate_mapping_without_static(mapping, headers, static_mapping) ==
    IF \E i \in DOMAIN mapping : mapping[i][2] \notin Range(headers)
    THEN Exc("ValueError", "Header not found in CSV file")
    ELSE IF \E i \in DOMAIN mapping : ~get_field(mapping[i][1])
    THEN Exc("FieldDoesNotExist", "Model does not include field")
    ELSE NoExc

validate_mapping(mapping, headers, static_mapping) ==
    IF \E i \in DOMAIN mapping : mapping[i][2] \notin Range(headers)
    THEN Exc("ValueError", "Header not found in CSV file")
    ELSE IF \E i \in DOMAIN mapping : ~get_field(mapping[i][1])
    THEN Exc("FieldDoesNotExist", "Model does not include field")
    ELSE IF \E i \in DOMAIN static_mapping : ~get_field(static_mapping[i][1])
    THEN Exc("ValueError", "Model does not include field")
    ELSE NoExc

NoCsv == [path |-> "none", exists |-> FALSE, headers |-> <<>>, rows |-> <<>>, body |-> "ok",
          given |-> "path"]

NoMapping == [
    using |-> "none", on_conflict |-> NoConflict, headers |-> <<>>,
    mapping |-> <<>>, static_mapping |-> <<>>, csv |-> NoCsv, csv_file |-> NoFile
]

db_for_write == DEFAULT_DB_ALIAS

\* CopyMapping.__init__: the mapping object, or the exception it raises;
\* csv_file is the source file object as the constructor leaves it
CopyMapping(a) ==
    LET using == IF a.using # "None" THEN a.using ELSE db_for_write
        on_conflict == IF a.ignore_conflicts
                       THEN [action |-> "ignore", target |-> Absent, columns |-> Absent]
                       ELSE a.on_conflict
        opened == IF a.csv.given = "path" THEN open(a.csv) ELSE Passed(a.csv)
        read == get_headers(a.csv, opened)
        headers == read.headers
        mapping == get_mapping(a.mapping, headers)
        obj == [using |-> using, on_conflict |-> on_conflict, headers |-> headers,
                mapping |-> mapping, static_mapping |-> a.static_mapping,
                csv |-> a.csv, csv_file |-> read.f]
    IN  IF a.csv.given = "path" /\ ~a.csv.exists
        THEN [exc |-> Exc("ValueError", "CSV path does not exist"), obj |-> NoMapping]
        ELSE IF Vendor(using) # "postgresql"
        THEN [exc |-> Exc("TypeError", "Only PostgreSQL backends supported"),
              obj |-> [NoMapping EXCEPT !.csv_file = opened]]
        ELSE IF Truthy(on_conflict) /\ ~is_postgresql_9_5(using)
        THEN [exc |-> Exc("NotSupportedError", "no conflict logic"),
              obj |-> [NoMapping EXCEPT !.csv_file = opened]]
        ELSE IF validate_mapping(mapping, headers, a.static_mapping) # NoExc
        THEN [exc |-> validate_mapping(mapping, headers, a.static_mapping),
              obj |-> [NoMapping EXCEPT !.csv_file = read.f]]
        ELSE [exc |-> NoExc, obj |-> obj]

\* ------------------------------------------------- the database engine
\* one connection's view: schema objects in force on the target table, the
\* target's rows (a bag of unique-key values) and the session's staging table
NoTable == [exists |-> FALSE, headers |-> <<>>, rows |-> <<>>, castable |-> TRUE]

Op(op, obj, alias, ok) == [op |-> op, obj |-> obj, on |-> alias, ok |-> ok]

Enforced(d) == d.inforce \cap UniqueObjs # {}

NoDuplicates(t) == \A k \in Keys : t[k] <= 1

Total(t) == t["k1"] + t["k2"] + t["k3"]

\* rows of a batch that collide with a stored row or an earlier row of the batch
Collides(t, rows, i) == t[rows[i]] > 0 \/ \E j \in 1..(i - 1) : rows[j] = rows[i]

Collisions(t, rows) == {i \in DOMAIN rows : Collides(t, rows, i)}

Count(rows, k, idx) == Cardinality({i \in idx : rows[i] = k})

\* the unique index an ON CONFLICT (target) clause infers
Arbiter(target) == IF target = "constraint_fields" THEN {"constraint"}
                   ELSE IF target = "column" THEN {"unique_col"}
                   ELSE {}

\* DROP TABLE IF EXISTS "temp_..."
ExecDropStaging(d) == [d |-> [d EXCEPT !.staging = NoTable], exc |-> NoExc]

\* CREATE TEMPORARY TABLE "temp_..." (one text column per header)
ExecCreateStaging(d, headers) ==
    IF d.staging.exists
    THEN [d |-> d, exc |-> Exc("ProgrammingError", "relation already exists")]
    ELSE [d |-> [d EXCEPT !.staging = [exists |-> TRUE, headers |-> headers,
                                       rows |-> <<>>, castable |-> TRUE]],
          exc |-> NoExc]

\* COPY "temp_..." (headers) FROM STDIN WITH CSV HEADER
\* the file is streamed from its position: the first record sent is taken
\* as the header record and the records after it are stored
ExecCopyIn(d, headers, csv, handle) ==
    IF handle.state # "open"
    THEN [d |-> d, exc |-> Exc("ValueError", "I/O operation on closed file")]
    ELSE IF ~d.staging.exists
    THEN [d |-> d, exc |-> Exc("ProgrammingError", "relation does not exist")]
    ELSE IF Range(headers) \ Range(d.staging.headers) # {}
    THEN [d |-> d, exc |-> Exc("ProgrammingError", "column does not exist")]
    ELSE IF csv.body = "ragged"
    THEN [d |-> d, exc |-> Exc("DataError", "missing data for column")]
    ELSE [d |-> [d EXCEPT !.staging.rows = @ \o SubSeq(csv.rows, handle.pos + 1, Len(csv.rows)),
                          !.staging.castable = @ /\ csv.body # "uncastable"],
          exc |-> NoExc]

\* INSERT INTO target (...) (SELECT ... FROM "temp_...") [ON CONFLICT ...]
\* suffix: "none", "nothing" (DO NOTHING), or the target of DO UPDATE
ExecMergeInsert(d, mapping, suffix) ==
    LET rows == d.staging.rows
        hit == IF Enforced(d) THEN Collisions(d.target, rows) ELSE {}
        kept == DOMAIN rows \ hit
        added == [k \in Keys |-> d.target[k] + Count(rows, k, kept)]
    IN  IF ~d.staging.exists
        THEN [d |-> d, exc |-> Exc("ProgrammingError", "relation does not exist"), rowcount |-> -1]
        ELSE IF {mapping[i][2] : i \in DOMAIN mapping} \ Range(d.staging.headers) # {}
        THEN [d |-> d, exc |-> Exc("ProgrammingError", "column does not exist"), rowcount |-> -1]
        ELSE IF suffix \notin {"none", "nothing"} /\ Arbiter(suffix) \cap d.inforce = {}
        THEN [d |-> d, exc |-> Exc("ProgrammingError", "no unique constraint matching ON CONFLICT"),
              rowcount |-> -1]
        ELSE IF rows # <<>> /\ ~d.staging.castable
        THEN [d |-> d, exc |-> Exc("DataError", "invalid input syntax"), rowcount |-> -1]
        ELSE IF suffix = "none"
        THEN IF hit # {}
             THEN [d |-> d, exc |-> Exc("IntegrityError", "duplicate key value"), rowcount |-> -1]
             ELSE [d |-> [d EXCEPT !.target = added], exc |-> NoExc, rowcount |-> Len(rows)]
        ELSE IF suffix = "nothing"
        THEN [d |-> [d EXCEPT !.target = added], exc |-> NoExc,
              rowcount |-> Cardinality(kept)]
        ELSE IF \E i \in hit : \E j \in 1..(i - 1) : rows[j] = rows[i]
        THEN [d |-> d, exc |-> Exc("ProgrammingError", "cannot affect row a second time"),
              rowcount |-> -1]
        ELSE [d |-> [d EXCEPT !.target = added], exc |-> NoExc, rowcount |-> Len(rows)]

\* one schema-editor action; add is refused for a uniqueness rule that the
\* stored rows break, and either kind may be refused by the engine
ExecSchema(d, op, obj, refused) ==
    LET ok == /\ ~refused
              /\ IF op = "remove" THEN obj \in d.inforce
                 ELSE obj \notin d.inforce /\ (obj \in UniqueObjs => NoDuplicates(d.target))
    IN  [d |-> IF ~ok THEN d
               ELSE IF op = "remove" THEN [d EXCEPT !.inforce = @ \ {obj}]
               ELSE [d EXCEPT !.inforce = @ \cup {obj}],
         exc |-> IF ok THEN NoExc ELSE Exc("DatabaseError", "schema edit rejected")]

\* --------------------------------------------- CopyMapping: the steps
\* a hook method called by a step, after that many statements of the step
Hook(name, after) == [name |-> name, after |-> after]

\* the hooks of a step as the call's history keeps them: at is the number of
\* statements the call had executed when the hook ran
Ran(hs, executed) == [i \in DOMAIN hs |-> [name |-> hs[i].name, at |-> executed + hs[i].after]]

drop_keeping_table(d, m) ==
    [d |-> d, exc |-> NoExc, ops |-> <<Op("drop_staging", "temp", m.using, TRUE)>>]

drop(d, m) ==
    LET r == ExecDropStaging(d)
    IN  [d |-> r.d, exc |-> r.exc,
         ops |-> <<Op("drop_staging", "temp", m.using, r.exc = NoExc)>>]

create_without_drop(d, m) ==
    LET r2 == ExecCreateStaging(d, m.headers)
    IN  [d |-> r2.d, exc |-> r2.exc,
         ops |-> <<Op("create_staging", "temp", m.using, r2.exc = NoExc)>>]

create(d, m) ==
    LET r1 == drop(d, m)
        r2 == ExecCreateStaging(r1.d, m.headers)
    IN  IF r1.exc # NoExc THEN r1
        ELSE [d |-> r2.d, exc |-> r2.exc,
              ops |-> r1.ops \o <<Op("create_staging", "temp", m.using, r2.exc = NoExc)>>]

copy_with_finally(d, m, handle) ==
    LET r == ExecCopyIn(d, m.headers, m.csv, handle)
        ok == r.exc = NoExc
    IN  [d |-> r.d, exc |-> r.exc,
         ops |-> <<Op("copy_in", "temp", m.using, ok)>>,
         hooks |-> <<Hook("pre_copy", 0), Hook("post_copy", 1)>>,
         handle |-> IF ok THEN [handle EXCEPT !.state = "closed", !.pos = Records(m.csv)]
                    ELSE handle]

copy(d, m, handle) ==
    LET r == ExecCopyIn(d, m.headers, m.csv, handle)
        ok == r.exc = NoExc
    IN  [d |-> r.d, exc |-> r.exc,
         ops |-> <<Op("copy_in", "temp", m.using, ok)>>,
         hooks |-> IF ok THEN <<Hook("pre_copy", 0), Hook("post_copy", 1)>>
                   ELSE <<Hook("pre_copy", 0)>>,
         handle |-> IF ok THEN [handle EXCEPT !.state = "closed", !.pos = Records(m.csv)]
                    ELSE handle]

insert_suffix(on_conflict, mdl) ==
    IF ~Truthy(on_conflict) THEN [exc |-> NoExc, suffix |-> "none"]
    ELSE IF on_conflict.action = Absent
    THEN [exc |-> Exc("ValueError", "Must specify an action"), suffix |-> "none"]
    ELSE IF on_conflict.action = "ignore"
    THEN [exc |-> NoExc, suffix |-> "nothing"]
    ELSE IF on_conflict.action = "update"
    THEN IF on_conflict.target = Absent
         THEN [exc |-> Exc("ValueError", "Must specify target"), suffix |-> "none"]
         ELSE IF on_conflict.columns = Absent
         THEN [exc |-> Exc("ValueError", "Must specify columns"), suffix |-> "none"]
         ELSE IF on_conflict.target = "constraint"
         THEN [exc |-> NoExc,
               suffix |-> IF "constraint" \in mdl.declared THEN "constraint_fields"
                          ELSE "bad_column"]
         ELSE [exc |-> NoExc, suffix |-> on_conflict.target]
    ELSE [exc |-> Exc("ValueError", "Action must be one of ignore or update"),
          suffix |-> "none"]

insert_counting_table(d, m, mdl) ==
    LET s == insert_suffix(m.on_conflict, mdl)
        r == ExecMergeInsert(d, m.mapping, s.suffix)
        ok == r.exc = NoExc
    IN  IF s.exc # NoExc
        THEN [d |-> d, exc |-> s.exc, ops |-> <<>>, hooks |-> <<Hook("pre_insert", 0)>>,
              rowcount |-> -1]
        ELSE [d |-> r.d, exc |-> r.exc,
              ops |-> <<Op("merge_insert", "target", m.using, ok)>>,
              hooks |-> IF ok THEN <<Hook("pre_insert", 0), Hook("post_insert", 1)>>
                        ELSE <<Hook("pre_insert", 0)>>,
              rowcount |-> IF ok THEN Total(r.d.target) ELSE -1]

insert(d, m, mdl) ==
    LET s == insert_suffix(m.on_conflict, mdl)
        r == ExecMergeInsert(d, m.mapping, s.suffix)
        ok == r.exc = NoExc
    IN  IF s.exc # NoExc
        THEN [d |-> d, exc |-> s.exc, ops |-> <<>>, hooks |-> <<Hook("pre_insert", 0)>>,
              rowcount |-> -1]
        ELSE [d |-> r.d, exc |-> r.exc,
              ops |-> <<Op("merge_insert", "target", m.using, ok)>>,
              hooks |-> IF ok THEN <<Hook("pre_insert", 0), Hook("post_insert", 1)>>
                        ELSE <<Hook("pre_insert", 0)>>,
              rowcount |-> r.rowcount]

\* ------------------------------------- ConstraintQuerySet: the passes
connection == DEFAULT_DB_ALIAS

constrained_fields(mdl) ==
    IF "fk_constraint" \in mdl.declared THEN <<"fk_constraint">> ELSE <<>>

indexed_fields(mdl) ==
    IF "field_index" \in mdl.declared THEN <<"field_index">> ELSE <<>>

edit_schema_raising(d, method, obj, refused) ==
    LET r == ExecSchema(d, method, obj, refused)
    IN  [d |-> r.d, exc |-> r.exc, ops |-> <<Op(method, obj, connection, r.exc = NoExc)>>]

\* the call is made and whatever it raises is swallowed
edit_schema(d, method, obj, refused) ==
    LET r == ExecSchema(d, method, obj, refused)
    IN  [d |-> r.d, exc |-> NoExc, ops |-> <<Op(method, obj, connection, r.exc = NoExc)>>]

RECURSIVE edit_each(_, _, _, _)
edit_each(d, method, objs, refused) ==
    IF objs = <<>> THEN [d |-> d, exc |-> NoExc, ops |-> <<>>]
    ELSE LET r == edit_schema(d, method, Head(objs), Head(objs) \in refused)
             rest == edit_each(r.d, method, Tail(objs), refused)
         IN  IF r.exc # NoExc THEN r
             ELSE [d |-> rest.d, exc |-> rest.exc, ops |-> r.ops \o rest.ops]

ConstraintActions(mdl) ==
    (IF "unique_together" \in mdl.declared THEN <<"unique_together">> ELSE <<>>)
    \o constrained_fields(mdl)
    \o (IF "constraint" \in mdl.declared THEN <<"constraint">> ELSE <<>>)

IndexActions(mdl) ==
    (IF "index_together" \in mdl.declared THEN <<"index_together">> ELSE <<>>)
    \o indexed_fields(mdl)
    \o (IF "index" \in mdl.declared THEN <<"index">> ELSE <<>>)

drop_constraints(d, mdl, refused) == edit_each(d, "remove", ConstraintActions(mdl), refused)

drop_indexes(d, mdl, refused) == edit_each(d, "remove", IndexActions(mdl), refused)

restore_constraints_and_indexes(d, mdl, refused) ==
    edit_each(d, "add", ConstraintActions(mdl) \o IndexActions(mdl), refused)

restore_constraints(d, mdl, refused) == edit_each(d, "add", ConstraintActions(mdl), refused)

restore_indexes(d, mdl, refused) == edit_each(d, "add", IndexActions(mdl), refused)

\* ------------------------------------------- CopyQuerySet.from_csv
validate_no_atomic_block(blocks) ==
    IF connection \in blocks
    THEN Exc("TransactionManagementError", "inside a transaction block")
    ELSE NoExc

transaction_check(a, blocks) ==
    IF a.drop_constraints \/ a.drop_indexes
    THEN validate_no_atomic_block(blocks)
    ELSE NoExc

\* the value of drop_constraints after the on_conflict block (GH issue 117)
adjust_drop_constraints(a, mdl) ==
    IF Truthy(a.on_conflict)
    THEN IF a.on_conflict.target # Absent
         THEN IF a.on_conflict.target = "constraint" /\ "constraint" \in mdl.declared
              THEN FALSE
              ELSE a.drop_constraints
         ELSE IF a.on_conflict.action = "ignore" THEN FALSE
         ELSE a.drop_constraints
    ELSE a.drop_constraints

\* ------------------------------------------------------------ the state
\* no export is under way
NoDestination == [kind |-> "none", state |-> "none", content |-> <<>>]

\* no statement generated, for no mapping
NoSql == [model_fields |-> <<>>, temp_fields |-> <<>>, set |-> {}]

NoStatement == [
    cls |-> "none", templates |-> {}, mapping |-> <<>>, static_mapping |-> <<>>,
    field_value_mapping |-> <<>>, ignore_non_mapped_headers |-> FALSE,
    on_conflict |-> NoConflict, sql |-> NoSql
]

\* the processes that load concurrently, none of them in a call
Loaders == {"A", "B"}

NoLoad == [pc |-> "idle", drop_indexes |-> FALSE, mapping |-> NoMapping, exc |-> NoExc]

NoLoads == [p \in Loaders |-> NoLoad]

\* no rows anywhere; before is the target as the running call found it
NoRelations == [csv |-> <<>>, staging |-> <<>>, target |-> <<>>, before |-> <<>>]

NoArgs == [
    csv |-> NoCsv, mapping |-> <<>>, static_mapping |-> <<>>, using |-> "None",
    ignore_conflicts |-> FALSE, on_conflict |-> NoConflict,
    drop_constraints |-> FALSE, drop_indexes |-> FALSE
]

EmptyDb == [a \in PgAliases |->
              [inforce |-> {}, target |-> [k \in Keys |-> 0], staging |-> NoTable]]

\* before: the database as the call found it
NoCall == [
    op |-> "none", args |-> NoArgs, drop_constraints |-> FALSE, drop_indexes |-> FALSE,
    mapping |-> NoMapping, refusals |-> 0, insert_count |-> -1, before |-> EmptyDb
]

NoResult == [status |-> "none", value |-> -1, exc |-> NoExc]
Returned(v) == [status |-> "returned", value |-> v, exc |-> NoExc]
Raised(e) == [status |-> "raised", value |-> -1, exc |-> e]

Init ==
    /\ model \in Models
    /\ destination = NoDestination
    /\ chunks = <<>>
    /\ relations = NoRelations
    /\ loads = NoLoads
    /\ statement = NoStatement
    /\ pc = "idle"
    /\ call = NoCall
    /\ atomic = {}
    /\ db = [a \in PgAliases |->
               [inforce |-> model.declared, target |-> [k \in Keys |-> 0],
                staging |-> NoTable]]
    /\ csv_file = NoFile
    /\ log = <<>>
    /\ hooks = <<>>
    /\ result = NoResult
    /\ ncalls = 0

Idle == pc = "idle"

Done == pc \in {"returned", "raised"}

\* from_csv up to and including the construction of the CopyMapping
FromCsv ==
    /\ Idle
    /\ ncalls < MaxCalls
    /\ \E a \in Arguments, blocks \in AtomicStates :
         LET tme == transaction_check(a, blocks)
             m == CopyMapping(a)
             c == [op |-> "from_csv", args |-> a,
                   drop_constraints |-> adjust_drop_constraints(a, model),
                   drop_indexes |-> a.drop_indexes,
                   mapping |-> m.obj, refusals |-> 0, insert_count |-> -1,
                   before |-> db]
         IN  /\ atomic' = blocks
             /\ ncalls' = ncalls + 1
             /\ log' = <<>>
             /\ hooks' = <<>>
             /\ IF tme # NoExc
                THEN /\ call' = [c EXCEPT !.mapping = NoMapping,
                                          !.drop_constraints = a.drop_constraints]
                     /\ csv_file' = NoFile
                     /\ pc' = "raised"
                     /\ result' = Raised(tme)
                ELSE /\ call' = c
                     /\ csv_file' = m.obj.csv_file
                     /\ pc' = IF m.exc # NoExc THEN "raised" ELSE "drop_constraints"
                     /\ result' = IF m.exc # NoExc THEN Raised(m.exc) ELSE NoResult
    /\ UNCHANGED <<db, model, destination, chunks, relations, loads, statement>>

Refusable(objs) ==
    {r \in SUBSET Range(objs) : Cardinality(r) + call.refusals <= MaxRefusals}

\* one pass of the suspension manager over the default connection: r is the
\* outcome of the pass when the engine rejects the actions in refused
Pass(enabled, next, refused, r) ==
    /\ IF enabled
       THEN /\ db' = [db EXCEPT ![connection] = r.d]
            /\ log' = log \o r.ops
            /\ call' = [call EXCEPT !.refusals = @ + Cardinality(refused)]
            /\ IF r.exc # NoExc
               THEN pc' = "raised" /\ result' = Raised(r.exc)
               ELSE IF next = "returned"
               THEN pc' = next /\ result' = Returned(call.insert_count)
               ELSE pc' = next /\ UNCHANGED result
       ELSE /\ refused = {}
            /\ pc' = next
            /\ result' = IF next = "returned" THEN Returned(call.insert_count) ELSE result
            /\ UNCHANGED <<db, log, call>>
    /\ UNCHANGED <<atomic, csv_file, hooks, ncalls, model, destination, chunks, relations, loads, statement>>

DropConstraints ==
    /\ pc = "drop_constraints"
    /\ \E refused \in Refusable(ConstraintActions(model)) :
         Pass(call.drop_constraints, "drop_indexes", refused,
              drop_constraints(db[connection], model, refused))

DropIndexes ==
    /\ pc = "drop_indexes"
    /\ \E refused \in Refusable(IndexActions(model)) :
         Pass(call.drop_indexes, "create", refused,
              drop_indexes(db[connection], model, refused))

RestoreConstraints ==
    /\ pc = "restore_constraints"
    /\ \E refused \in Refusable(ConstraintActions(model)) :
         Pass(call.drop_constraints, "restore_indexes", refused,
              restore_constraints(db[connection], model, refused))

RestoreIndexes ==
    /\ pc = "restore_indexes"
    /\ \E refused \in Refusable(IndexActions(model)) :
         Pass(call.drop_indexes, "returned", refused,
              restore_indexes(db[connection], model, refused))

Step_with_cleanup(r, next) ==
    /\ db' = [db EXCEPT ![call.mapping.using] =
                 IF r.exc # NoExc THEN drop(r.d, call.mapping).d ELSE r.d]
    /\ log' = log \o r.ops
    /\ IF r.exc # NoExc
       THEN pc' = "raised" /\ result' = Raised(r.exc)
       ELSE pc' = next /\ UNCHANGED result
    /\ UNCHANGED <<atomic, ncalls, model, destination, chunks, relations, loads, statement>>

\* one step of save(): the method runs on the mapping's connection; what it
\* raises leaves save() and from_csv at once
Step(r, next) ==
    /\ db' = [db EXCEPT ![call.mapping.using] = r.d]
    /\ log' = log \o r.ops
    /\ IF r.exc # NoExc
       THEN pc' = "raised" /\ result' = Raised(r.exc)
       ELSE pc' = next /\ UNCHANGED result
    /\ UNCHANGED <<atomic, ncalls, model, destination, chunks, relations, loads, statement>>

SaveCreate ==
    /\ pc = "create"
    /\ Step(create(db[call.mapping.using], call.mapping), "copy")
    /\ UNCHANGED <<call, csv_file, hooks>>

SaveCopy ==
    /\ pc = "copy"
    /\ LET r == copy(db[call.mapping.using], call.mapping, csv_file)
       IN  /\ Step(r, "insert")
           /\ csv_file' = r.handle
           /\ hooks' = hooks \o Ran(r.hooks, Len(log))
    /\ UNCHANGED call

SaveInsert ==
    /\ pc = "insert"
    /\ LET r == insert(db[call.mapping.using], call.mapping, model)
       IN  /\ Step(r, "drop")
           /\ hooks' = hooks \o Ran(r.hooks, Len(log))
           /\ call' = [call EXCEPT !.insert_count = r.rowcount]
    /\ UNCHANGED csv_file

SaveDrop_skipped ==
    /\ pc = "drop"
    /\ pc' = "restore_constraints"
    /\ UNCHANGED <<call, atomic, db, csv_file, log, hooks, result, ncalls, model, destination, chunks, relations, loads, statement>>

SaveDrop ==
    /\ pc = "drop"
    /\ Step(drop(db[call.mapping.using], call.mapping), "restore_constraints")
    /\ UNCHANGED <<call, csv_file, hooks>>

\* the caller takes the outcome; the frame of the call is gone
Unwind ==
    /\ Done
    /\ pc' = "idle"
    /\ call' = NoCall
    /\ atomic' = {}
    /\ csv_file' = NoFile
    /\ log' = <<>>
    /\ hooks' = <<>>
    /\ result' = NoResult
    /\ UNCHANGED <<db, ncalls, model, destination, chunks, relations, loads, statement>>

Next ==
    \/ Unwind
    \/ FromCsv
    \/ DropConstraints
    \/ DropIndexes
    \/ SaveCreate
    \/ SaveCopy
    \/ SaveInsert
    \/ SaveDrop
    \/ RestoreConstraints
    \/ RestoreIndexes

Spec == Init /\ [][Next]_vars

\* ------------------------------------- CopyMapping used step by step
\* a caller builds a CopyMapping and runs create, copy, insert and drop
\* itself on one cursor, in any order
MappingArguments == {a \in Arguments : ~a.drop_constraints /\ ~a.drop_indexes}

NewMapping ==
    /\ pc = "idle"
    /\ ncalls < MaxSteps
    /\ \E a \in MappingArguments :
         /\ LET m == CopyMapping(a)
            IN  /\ call' = [NoCall EXCEPT !.op = "CopyMapping", !.args = a,
                                          !.mapping = m.obj, !.before = db]
                /\ csv_file' = m.obj.csv_file
                /\ pc' = IF m.exc # NoExc THEN "idle" ELSE "steps"
                /\ result' = IF m.exc # NoExc THEN Raised(m.exc) ELSE NoResult
    /\ log' = <<>>
    /\ hooks' = <<>>
    /\ ncalls' = ncalls + 1
    /\ UNCHANGED <<atomic, db, model, destination, chunks, relations, loads, statement>>

Method(name, r, value) ==
    /\ db' = [db EXCEPT ![call.mapping.using] = r.d]
    /\ log' = log \o r.ops
    /\ call' = [call EXCEPT !.op = name]
    /\ result' = IF r.exc # NoExc THEN Raised(r.exc) ELSE Returned(value)
    /\ ncalls' = ncalls + 1
    /\ UNCHANGED <<pc, atomic, model, destination, chunks, relations, loads, statement>>

StepCreate ==
    /\ pc = "steps"
    /\ ncalls < MaxSteps
    /\ Method("create", create(db[call.mapping.using], call.mapping), -1)
    /\ UNCHANGED <<csv_file, hooks>>

StepCopy ==
    /\ pc = "steps"
    /\ ncalls < MaxSteps
    /\ LET r == copy(db[call.mapping.using], call.mapping, csv_file)
       IN  /\ Method("copy", r, -1)
           /\ csv_file' = r.handle
           /\ hooks' = hooks \o Ran(r.hooks, Len(log))

StepInsert ==
    /\ pc = "steps"
    /\ ncalls < MaxSteps
    /\ LET r == insert(db[call.mapping.using], call.mapping, model)
       IN  /\ Method("insert", r, r.rowcount)
           /\ hooks' = hooks \o Ran(r.hooks, Len(log))
    /\ UNCHANGED csv_file

StepDrop ==
    /\ pc = "steps"
    /\ ncalls < MaxSteps
    /\ Method("drop", drop(db[call.mapping.using], call.mapping), -1)
    /\ UNCHANGED <<csv_file, hooks>>

NextSteps ==
    \/ NewMapping
    \/ StepCreate
    \/ StepCopy
    \/ StepInsert
    \/ StepDrop

SpecSteps == Init /\ [][NextSteps]_vars

\* ------------------------------------------------- CopyQuerySet.to_csv
\* where the caller wants the export: nowhere (None), a file path, or an
\* object with a write method (text or binary)
Destinations == {"None", "path", "StringIO", "BytesIO"}

\* the *fields arguments
ExportFields == {<<>>, <<"name">>, <<"number", "name">>, <<"missing">>}

\* annotations added to the queryset before to_csv
Annotations == {<<>>, <<"name_count">>}

\* a keyword argument is left out or given
Options == {Absent, "given"}

ExportArguments == {
    [csv_path |-> d, fields |-> f, annotations |-> n, header |-> h, delimiter |-> dl,
     null |-> nu, quote |-> q, force_quote |-> fq, encoding |-> en, escape |-> es] :
    d \in Destinations, f \in ExportFields, n \in Annotations, h \in BOOLEAN,
    dl \in Options, nu \in Options, q \in Options, fq \in {Absent, "list", "True"},
    en \in Options, es \in Options
}

\* an attribute of the query object that was never assigned
Unset == <<"unset">>

\* a clause of the COPY statement; the empty string is <<>>
Clause(keyword, option) == IF option = Absent THEN <<>> ELSE <<keyword, option>>

\* to_csv up to the compiler: the attributes it assigns on the CopyToQuery
CopyToQuery(a) == [
    copy_to_fields |-> a.fields,
    copy_to_delimiter |-> <<"DELIMITER", IF a.delimiter = Absent THEN "," ELSE a.delimiter>>,
    copy_to_header |-> IF a.header THEN <<"HEADER">> ELSE <<>>,
    copy_to_null_string |-> Clause("NULL", a.null),
    copy_to_quote_char |-> Clause("QUOTE", a.quote),
    copy_to_force_quote |-> IF a.force_quote = Absent THEN <<>>
                            ELSE IF a.force_quote = "True" THEN <<"FORCE QUOTE", "*">>
                            ELSE <<"FORCE QUOTE", a.force_quote>>,
    copy_to_encoding |-> Clause("ENCODING", a.encoding),
    copy_to_escape |-> Clause("ESCAPE", a.escape),
    copy_to_datetime_fields |-> Unset,
    copy_to_timezone |-> Unset,
    annotations |-> a.annotations
]

\* opts.concrete_fields of the model, in declaration order
concrete_fields == <<"id", "name", "number">>

get_default_field_names == concrete_fields

\* query.resolve_ref(field)
resolve_ref(query, field) ==
    IF field \in Range(concrete_fields) \cup Range(query.annotations)
    THEN NoExc
    ELSE Exc("FieldError", "Cannot resolve keyword into field")

\* the fields setup_query goes through
SelectedFields(query) ==
    IF query.copy_to_fields # <<>> THEN query.copy_to_fields ELSE get_default_field_names

\* one turn of the loop of setup_query
select_field(query, field) ==
    IF resolve_ref(query, field) # NoExc THEN resolve_ref(query, field)
    ELSE IF query.copy_to_datetime_fields = Unset
    THEN Exc("AttributeError", "copy_to_datetime_fields")
    ELSE IF field \in Range(query.copy_to_datetime_fields) /\ query.copy_to_timezone = Unset
    THEN Exc("AttributeError", "copy_to_timezone")
    ELSE NoExc

setup_query(query) ==
    LET fields == SelectedFields(query)
        bad == {i \in DOMAIN fields : select_field(query, fields[i]) # NoExc}
        first == CHOOSE i \in bad : \A j \in bad : i <= j
    IN  IF bad # {}
        THEN [exc |-> select_field(query, fields[first]), select |-> SubSeq(fields, 1, first - 1)]
        ELSE [exc |-> NoExc, select |-> fields]

\* a call that returns nothing; returned data is <<payload>>
None == <<>>

\* what COPY (SELECT ...) TO STDOUT sends for a table
Payload(select, header, table) == [columns |-> select, header |-> header, rows |-> table]

\* execute_sql: the destination as it is left, and what is returned or raised
execute_sql(query, csv_path, table) ==
    LET q == setup_query(query)
        options == <<query.copy_to_header, query.copy_to_null_string, query.copy_to_quote_char,
                     query.copy_to_force_quote, query.copy_to_encoding, query.copy_to_escape>>
        unset == {i \in DOMAIN options : options[i] = Unset} # {}
                     \/ query.copy_to_delimiter = Unset
        data == Payload(q.select, query.copy_to_header # <<>>, table)
    IN  IF q.exc # NoExc
        THEN [exc |-> q.exc, value |-> None, destination |-> NoDestination, ops |-> <<>>]
        ELSE IF unset
        THEN [exc |-> Exc("AttributeError", "copy_to option"), value |-> None,
              destination |-> NoDestination, ops |-> <<>>]
        ELSE IF csv_path \in {"StringIO", "BytesIO"}
        THEN [exc |-> NoExc, value |-> None,
              destination |-> [kind |-> csv_path, state |-> "open", content |-> <<data>>],
              ops |-> <<Op("copy_out", "target", DEFAULT_DB_ALIAS, TRUE)>>]
        ELSE IF csv_path = "path"
        THEN [exc |-> NoExc, value |-> None,
              destination |-> [kind |-> "path", state |-> "closed", content |-> <<data>>],
              ops |-> <<Op("copy_out", "target", DEFAULT_DB_ALIAS, TRUE)>>]
        ELSE [exc |-> NoExc, value |-> <<data>>, destination |-> NoDestination,
              ops |-> <<Op("copy_out", "target", DEFAULT_DB_ALIAS, TRUE)>>]

\* to_csv returns data only when csv_path is None
to_csv(a, table) ==
    LET r == execute_sql(CopyToQuery(a), a.csv_path, table)
    IN  [r EXCEPT !.value = IF a.csv_path = "None" THEN r.value ELSE None]

\* tables an export can find: empty, or rows loaded before
Stored == {
    [k \in Keys |-> 0],
    [k \in Keys |-> IF k = "k3" THEN 0 ELSE 1],
    [k \in Keys |-> 1]
}

InitExport ==
    /\ model \in Models
    /\ destination = NoDestination
    /\ chunks = <<>>
    /\ relations = NoRelations
    /\ loads = NoLoads
    /\ statement = NoStatement
    /\ pc = "idle"
    /\ call = NoCall
    /\ atomic = {}
    /\ \E t \in Stored :
         db = [a \in PgAliases |->
                 [inforce |-> model.declared, target |-> t, staging |-> NoTable]]
    /\ csv_file = NoFile
    /\ log = <<>>
    /\ hooks = <<>>
    /\ result = NoResult
    /\ ncalls = 0

\* one call of to_csv; an object the caller passes is open and empty, a path
\* names no file yet
ToCsv ==
    /\ Idle
    /\ ncalls < MaxCalls
    /\ \E a \in ExportArguments :
         LET r == to_csv(a, db[DEFAULT_DB_ALIAS].target)
             given == IF a.csv_path \in {"StringIO", "BytesIO"}
                      THEN [kind |-> a.csv_path, state |-> "open", content |-> <<>>]
                      ELSE NoDestination
         IN  /\ call' = [NoCall EXCEPT !.op = "to_csv", !.args = a, !.before = db]
             /\ destination' = IF r.exc # NoExc THEN given ELSE r.destination
             /\ log' = r.ops
             /\ pc' = IF r.exc # NoExc THEN "raised" ELSE "returned"
             /\ result' = IF r.exc # NoExc THEN Raised(r.exc) ELSE Returned(r.value)
    /\ ncalls' = ncalls + 1
    /\ UNCHANGED <<atomic, db, csv_file, hooks, model, chunks, relations, loads, statement>>

NextExport ==
    \/ ToCsv
    \/ Unwind

SpecExport == InitExport /\ [][NextExport]_vars

\* ------------------------------------- psycopg_compat.copy_to (psycopg 3)
\* a character is the sequence of bytes that encodes it in UTF-8:
\* "a", e with acute accent, the euro sign
Characters == {<<97>>, <<195, 169>>, <<226, 130, 172>>}

Texts == UNION {[1..n -> Characters] : n \in 0..MaxChars}

RECURSIVE encode(_)
encode(text) == IF text = <<>> THEN <<>> ELSE Head(text) \o encode(Tail(text))

\* every way the bytes of a stream reach copy.read() in non-empty chunks
RECURSIVE Splits(_)
Splits(bytes) ==
    IF bytes = <<>> THEN {<<>>}
    ELSE UNION {{<<SubSeq(bytes, 1, i)>> \o rest :
                    rest \in Splits(SubSeq(bytes, i + 1, Len(bytes)))} :
                i \in 1..Len(bytes)}

\* the length of the character a byte starts; 0 for a byte that starts none
Width(byte) ==
    IF byte < 128 THEN 1
    ELSE IF byte >= 192 /\ byte < 224 THEN 2
    ELSE IF byte >= 224 /\ byte < 240 THEN 3
    ELSE IF byte >= 240 /\ byte < 248 THEN 4
    ELSE 0

Continuation(byte) == byte >= 128 /\ byte < 192

\* bytes.decode("utf-8"): the characters, or UnicodeDecodeError
RECURSIVE decode(_)
decode(data) ==
    IF data = <<>> THEN [exc |-> NoExc, text |-> <<>>]
    ELSE LET n == Width(Head(data))
         IN  IF n = 0 \/ Len(data) < n
                \/ \E i \in 2..n : ~Continuation(data[i])
             THEN [exc |-> Exc("UnicodeDecodeError", "utf-8"), text |-> <<>>]
             ELSE LET rest == decode(SubSeq(data, n + 1, Len(data)))
                  IN  [exc |-> rest.exc,
                       text |-> IF rest.exc # NoExc THEN <<>>
                                ELSE <<SubSeq(data, 1, n)>> \o rest.text]

\* copy_to(cursor, sql, params, destination) is called with an empty
\* StringIO or BytesIO; the server sends a text in some chunking
CopyTo ==
    /\ Idle
    /\ ncalls < MaxCalls
    /\ \E text \in Texts, kind \in {"StringIO", "BytesIO"} :
         \E split \in Splits(encode(text)) :
            /\ chunks' = split
            /\ destination' = [kind |-> kind, state |-> "open", content |-> <<>>]
    /\ call' = [NoCall EXCEPT !.op = "copy_to"]
    /\ pc' = "copy_to"
    /\ log' = <<Op("copy", "target", DEFAULT_DB_ALIAS, TRUE)>>
    /\ result' = NoResult
    /\ ncalls' = ncalls + 1
    /\ UNCHANGED <<atomic, db, csv_file, hooks, model, relations, loads, statement>>

\* the number of chunks copy.read() has handed over
ReadSoFar == Cardinality({i \in DOMAIN log : log[i].op = "read"})

\* one turn of the loop: data = copy.read(), decoded for a text destination
\* and written
Read ==
    /\ pc = "copy_to"
    /\ ReadSoFar < Len(chunks)
    /\ LET data == chunks[ReadSoFar + 1]
           is_text == destination.kind = "StringIO"
       IN  IF is_text /\ decode(data).exc # NoExc
           THEN /\ pc' = "raised"
                /\ result' = Raised(decode(data).exc)
                /\ UNCHANGED destination
           ELSE /\ destination' = [destination EXCEPT !.content =
                                      @ \o (IF is_text THEN decode(data).text ELSE data)]
                /\ UNCHANGED <<pc, result>>
    /\ log' = Append(log, Op("read", "target", DEFAULT_DB_ALIAS, TRUE))
    /\ UNCHANGED <<call, atomic, db, csv_file, hooks, ncalls, model, chunks, relations, loads, statement>>

\* copy.read() returns nothing more: the loop ends and copy_to returns
EndOfStream ==
    /\ pc = "copy_to"
    /\ ReadSoFar = Len(chunks)
    /\ pc' = "returned"
    /\ result' = Returned(-1)
    /\ UNCHANGED <<call, atomic, db, csv_file, log, hooks, ncalls, model, destination, chunks, relations, loads, statement>>

\* the caller is done with the destination object
Discard ==
    /\ Done
    /\ pc' = "idle"
    /\ call' = NoCall
    /\ log' = <<>>
    /\ result' = NoResult
    /\ destination' = NoDestination
    /\ chunks' = <<>>
    /\ UNCHANGED <<atomic, db, csv_file, hooks, ncalls, model, relations, loads, statement>>

NextCopyTo ==
    \/ CopyTo
    \/ Read
    \/ EndOfStream
    \/ Discard

SpecCopyTo == Init /\ [][NextCopyTo]_vars

\* ------------------------------------------- the load, row by row
\* a unique name, a number and a static value per row, and the serial id
Columns == {"id", "name", "number", "static_val"}

Row(id, name, number, static_val) ==
    [id |-> id, name |-> name, number |-> number, static_val |-> static_val]

\* the data records of a source with the headers NAME and NUMBER
Records2 == [NAME : {"ben", "joe"}, NUMBER : {1, 2}]

Batches == UNION {[1..n -> Records2] : n \in 1..MaxBatch}

\* target tables a load can find: no row, or rows stored by earlier loads
StoredRows == {
    <<>>,
    <<Row(1, "ben", 0, "0")>>,
    <<Row(1, "joe", 1, "0")>>,
    <<Row(1, "joe", 0, "0"), Row(2, "ben", 1, "NULL")>>
}

\* the columns lists callers name in on_conflict
ColumnLists == {"number", "static_val", "number, static_val"}

columns(on_conflict) ==
    (IF on_conflict.columns \in {"number", "number, static_val"} THEN {"number"} ELSE {})
    \cup (IF on_conflict.columns \in {"static_val", "number, static_val"}
          THEN {"static_val"} ELSE {})

RowConflicts ==
    {NoConflict,
     [action |-> "ignore", target |-> Absent, columns |-> Absent],
     [action |-> "update", target |-> "constraint", columns |-> "number"]}
    \cup {[action |-> "update", target |-> "column", columns |-> c] : c \in ColumnLists}

\* the INSERT ... SELECT statement: the columns inserted into, what is
\* selected for each (a cast staging column or a static value), the ON
\* CONFLICT action and the columns of its SET list
prep_insert_setting_all(m, mdl) ==
    LET s == insert_suffix(m.on_conflict, mdl)
    IN  [exc |-> s.exc,
         model_fields |-> [i \in DOMAIN m.mapping |-> m.mapping[i][1]]
                          \o [i \in DOMAIN m.static_mapping |-> m.static_mapping[i][1]],
         temp_fields |-> [i \in DOMAIN m.mapping |-> <<"cast", m.mapping[i][2]>>]
                         \o [i \in DOMAIN m.static_mapping |->
                                <<"static", m.static_mapping[i][2]>>],
         suffix |-> s.suffix,
         set |-> {"number", "static_val"}]

prep_insert(m, mdl) ==
    LET s == insert_suffix(m.on_conflict, mdl)
    IN  [exc |-> s.exc,
         model_fields |-> [i \in DOMAIN m.mapping |-> m.mapping[i][1]]
                          \o [i \in DOMAIN m.static_mapping |-> m.static_mapping[i][1]],
         temp_fields |-> [i \in DOMAIN m.mapping |-> <<"cast", m.mapping[i][2]>>]
                         \o [i \in DOMAIN m.static_mapping |->
                                <<"static", m.static_mapping[i][2]>>],
         suffix |-> s.suffix,
         set |-> columns(m.on_conflict)]

\* the row the statement proposes for one staging record; a column that is
\* not inserted into takes its default
Excluded(stmt, record, id) ==
    [c \in Columns |->
        IF c = "id" THEN id
        ELSE IF \E i \in DOMAIN stmt.model_fields : stmt.model_fields[i] = c
        THEN LET i == CHOOSE i \in DOMAIN stmt.model_fields : stmt.model_fields[i] = c
             IN  IF stmt.temp_fields[i][1] = "cast" THEN record[stmt.temp_fields[i][2]]
                 ELSE stmt.temp_fields[i][2]
        ELSE "NULL"]

\* the statement applied record by record; touched are the rows this
\* statement has inserted or updated
RECURSIVE ExecInsertSelect(_, _, _, _)
ExecInsertSelect(t, records, stmt, touched) ==
    IF records = <<>> THEN [exc |-> NoExc, target |-> t]
    ELSE LET excluded == Excluded(stmt, Head(records), Len(t) + 1)
             hit == {i \in DOMAIN t : t[i].name = excluded.name}
             i == CHOOSE i \in hit : TRUE
         IN  IF hit = {}
             THEN ExecInsertSelect(Append(t, excluded), Tail(records), stmt,
                                   touched \cup {Len(t) + 1})
             ELSE IF stmt.suffix = "none"
             THEN [exc |-> Exc("IntegrityError", "duplicate key value"), target |-> t]
             ELSE IF stmt.suffix = "nothing"
             THEN ExecInsertSelect(t, Tail(records), stmt, touched)
             ELSE IF hit \cap touched # {}
             THEN [exc |-> Exc("ProgrammingError", "cannot affect row a second time"),
                   target |-> t]
             ELSE ExecInsertSelect(
                    [t EXCEPT ![i] = [c \in Columns |->
                                        IF c \in stmt.set THEN excluded[c] ELSE t[i][c]]],
                    Tail(records), stmt, touched \cup {i})

\* insert() on the rows: the statement runs whole or not at all
insert_rows(d, rel, m, mdl) ==
    LET stmt == prep_insert(m, mdl)
        r == ExecInsertSelect(rel.target, rel.staging, stmt, {})
    IN  IF stmt.exc # NoExc
        THEN [exc |-> stmt.exc, target |-> rel.target]
        ELSE IF stmt.suffix \notin {"none", "nothing"} /\ Arbiter(stmt.suffix) \cap d.inforce = {}
        THEN [exc |-> Exc("ProgrammingError", "no unique constraint matching ON CONFLICT"),
              target |-> rel.target]
        ELSE IF r.exc # NoExc THEN [exc |-> r.exc, target |-> rel.target]
        ELSE r

InitRows ==
    /\ model = [name |-> "UniqueMockObject", declared |-> {"unique_col"}]
    /\ destination = NoDestination
    /\ chunks = <<>>
    /\ \E t \in StoredRows : relations = [NoRelations EXCEPT !.target = t]
    /\ loads = NoLoads
    /\ statement = NoStatement
    /\ pc = "idle"
    /\ call = NoCall
    /\ atomic = {}
    /\ db = [a \in PgAliases |->
               [inforce |-> model.declared, target |-> [k \in Keys |-> 0],
                staging |-> NoTable]]
    /\ csv_file = NoFile
    /\ log = <<>>
    /\ hooks = <<>>
    /\ result = NoResult
    /\ ncalls = 0

\* CopyMapping(...) and save() up to the insert: the staging table is
\* created and the source's records are copied into it
SaveRows ==
    /\ Idle
    /\ ncalls < MaxCalls
    /\ \E batch \in Batches, oc \in RowConflicts, st \in {<<>>, GoodStatic} :
         LET a == [NoArgs EXCEPT !.csv = Names, !.mapping = GoodMapping,
                                 !.static_mapping = st, !.on_conflict = oc]
             m == CopyMapping(a)
         IN  /\ m.exc = NoExc
             /\ call' = [NoCall EXCEPT !.op = "save", !.args = a, !.mapping = m.obj]
             /\ relations' = [csv |-> batch, staging |-> batch,
                              target |-> relations.target, before |-> relations.target]
    /\ pc' = "insert_rows"
    /\ log' = <<>>
    /\ result' = NoResult
    /\ ncalls' = ncalls + 1
    /\ UNCHANGED <<atomic, db, csv_file, hooks, model, destination, chunks, loads, statement>>

InsertRows ==
    /\ pc = "insert_rows"
    /\ LET r == insert_rows(db[call.mapping.using], relations, call.mapping, model)
       IN  /\ relations' = [relations EXCEPT !.target = r.target]
           /\ log' = Append(log, Op("merge_insert", "target", call.mapping.using,
                                    r.exc = NoExc))
           /\ IF r.exc # NoExc
              THEN pc' = "raised" /\ result' = Raised(r.exc)
              ELSE pc' = "drop_rows" /\ UNCHANGED result
    /\ UNCHANGED <<call, atomic, db, csv_file, hooks, ncalls, model, destination, chunks, loads, statement>>

DropRows ==
    /\ pc = "drop_rows"
    /\ relations' = [relations EXCEPT !.staging = <<>>]
    /\ log' = Append(log, Op("drop_staging", "temp", call.mapping.using, TRUE))
    /\ pc' = "returned"
    /\ result' = Returned(Len(relations.target) - Len(relations.before))
    /\ UNCHANGED <<call, atomic, db, csv_file, hooks, ncalls, model, destination, chunks, loads, statement>>

\* the call's frame is gone; the target table stays
UnwindRows ==
    /\ Done
    /\ pc' = "idle"
    /\ call' = NoCall
    /\ log' = <<>>
    /\ result' = NoResult
    /\ relations' = [NoRelations EXCEPT !.target = relations.target]
    /\ UNCHANGED <<atomic, db, csv_file, hooks, ncalls, model, destination, chunks, loads, statement>>

NextRows ==
    \/ SaveRows
    \/ InsertRows
    \/ DropRows
    \/ UnwindRows

SpecRows == InitRows /\ [][NextRows]_vars

\* --------------------------------- from_csv calls running concurrently
\* save(): create, copy, insert, drop on the loader's own session, whose
\* staging table no other session sees; the first error ends it
save(d, m, mdl) ==
    LET r1 == create([d EXCEPT !.staging = NoTable], m)
        r2 == copy(r1.d, m, m.csv_file)
        r3 == insert(r2.d, m, mdl)
        r4 == drop(r3.d, m)
    IN  IF r1.exc # NoExc THEN [d |-> d, exc |-> r1.exc]
        ELSE IF r2.exc # NoExc THEN [d |-> d, exc |-> r2.exc]
        ELSE IF r3.exc # NoExc THEN [d |-> d, exc |-> r3.exc]
        ELSE [d |-> [r4.d EXCEPT !.staging = d.staging], exc |-> r4.exc]

\* the sources the loaders read
LoaderSources == {Source(Names, GoodMapping, <<>>), Source(MatchingHeaders, <<>>, <<>>)}

At(p, where) == loads[p].pc = where

Goto(p, where) == loads' = [loads EXCEPT ![p].pc = where]

LoadFrame == UNCHANGED <<pc, call, atomic, csv_file, log, hooks, result, model,
                         destination, chunks, relations, statement>>

\* from_csv(csv_path, mapping, drop_constraints=True, drop_indexes=...) up to
\* the construction of the mapping
LoadFromCsv ==
    /\ ncalls < MaxCalls
    /\ \E p \in Loaders, s \in LoaderSources, di \in BOOLEAN :
         LET a == [NoArgs EXCEPT !.csv = s.csv, !.mapping = s.mapping,
                                 !.drop_constraints = TRUE, !.drop_indexes = di]
             m == CopyMapping(a)
         IN  /\ At(p, "idle")
             /\ adjust_drop_constraints(a, model)
             /\ transaction_check(a, {}) = NoExc
             /\ m.exc = NoExc
             /\ loads' = [loads EXCEPT ![p] = [pc |-> "drop_constraints", drop_indexes |-> di,
                                               mapping |-> m.obj, exc |-> NoExc]]
    /\ ncalls' = ncalls + 1
    /\ UNCHANGED db
    /\ LoadFrame

LoadDropConstraints ==
    /\ \E p \in Loaders :
         /\ At(p, "drop_constraints")
         /\ db' = [db EXCEPT ![connection] = drop_constraints(db[connection], model, {}).d]
         /\ Goto(p, "drop_indexes")
    /\ UNCHANGED ncalls
    /\ LoadFrame

LoadDropIndexes ==
    /\ \E p \in Loaders :
         /\ At(p, "drop_indexes")
         /\ db' = IF loads[p].drop_indexes
                  THEN [db EXCEPT ![connection] = drop_indexes(db[connection], model, {}).d]
                  ELSE db
         /\ Goto(p, "save")
    /\ UNCHANGED ncalls
    /\ LoadFrame

LoadSave ==
    /\ \E p \in Loaders :
         LET r == save(db[loads[p].mapping.using], loads[p].mapping, model)
         IN  /\ At(p, "save")
             /\ db' = [db EXCEPT ![loads[p].mapping.using] = r.d]
             /\ loads' = [loads EXCEPT ![p].pc = IF r.exc # NoExc THEN "raised"
                                                 ELSE "restore_constraints",
                                       ![p].exc = r.exc]
    /\ UNCHANGED ncalls
    /\ LoadFrame

LoadRestoreConstraints ==
    /\ \E p \in Loaders :
         /\ At(p, "restore_constraints")
         /\ db' = [db EXCEPT ![connection] = restore_constraints(db[connection], model, {}).d]
         /\ Goto(p, "restore_indexes")
    /\ UNCHANGED ncalls
    /\ LoadFrame

LoadRestoreIndexes ==
    /\ \E p \in Loaders :
         /\ At(p, "restore_indexes")
         /\ db' = IF loads[p].drop_indexes
                  THEN [db EXCEPT ![connection] = restore_indexes(db[connection], model, {}).d]
                  ELSE db
         /\ Goto(p, "returned")
    /\ UNCHANGED ncalls
    /\ LoadFrame

\* the caller of a loader takes the outcome
LoadUnwind ==
    /\ \E p \in Loaders :
         /\ loads[p].pc \in {"returned", "raised"}
         /\ \A q \in Loaders : loads[q].pc \in {"idle", "returned", "raised"}
         /\ loads' = [loads EXCEPT ![p] = NoLoad]
    /\ UNCHANGED <<db, ncalls>>
    /\ LoadFrame

NextLoads ==
    \/ LoadFromCsv
    \/ LoadDropConstraints
    \/ LoadDropIndexes
    \/ LoadSave
    \/ LoadRestoreConstraints
    \/ LoadRestoreIndexes
    \/ LoadUnwind

SpecLoads == Init /\ [][NextLoads]_vars

\* ----------------------------------- the merge-insert as generated
\* the two mapping classes of the package: copy_from.CopyMapping, which
\* from_csv uses, and the CopyMapping of the package's __init__
Classes == {"copy_from", "package"}

\* the fields of the models loaded, with the column, the column type and the
\* copy_template each field object has
InsertFields == {"id", "name", "number"}

StaticFields == {"static_val", "static_string", "number"}

column(f) == IF f = "number" THEN "num" ELSE f

db_type(f) ==
    IF f = "id" THEN "serial"
    ELSE IF f \in {"number", "static_val"} THEN "integer"
    ELSE IF f = "static_string" THEN "varchar(5)"
    ELSE "varchar(500)"

copy_template(f) == f = "number"

\* literal values callers pass: a text and whether it is a Python str
Str(text) == [type |-> "str", text |-> text]

Number(text) == [type |-> "int", text |-> text]

\* a literal in the statement
Literal(quoted, text) == [quoted |-> quoted, text |-> text]

NoLiteral == Literal(FALSE, "")

\* an expression of the SELECT list
Expr(kind, header, type, cases, literal) ==
    [kind |-> kind, header |-> header, type |-> type, cases |-> cases, literal |-> literal]

\* the mappings given: fields of the model, each with a header of the file
InsertHeaders == <<"NAME", "NUMBER">>

InsertMappings ==
    {m \in UNION {[1..n -> InsertFields \X Range(InsertHeaders)] : n \in 1..MaxMapped} :
        \A i, j \in DOMAIN m : i # j => m[i][1] # m[j][1]}

InsertStatics == {
    <<>>,
    << <<"static_val", Number("1")>> >>,
    << <<"static_string", Str("test")>> >>,
    << <<"number", Number("1")>> >>,
    << <<"static_val", Number("1")>>, <<"static_string", Str("test")>> >>
}

\* field_value_mapping: per field, (source value, stored value) pairs
FieldValueMappings == {
    <<>>,
    << <<"number", << <<Str("seven"), Number("7")>>, <<Str("three"), Number("3")>> >> >> >>,
    << <<"name", << <<Str("ben"), Str("BEN")>> >> >> >>
}

InsertConflicts ==
    {NoConflict, [action |-> "ignore", target |-> Absent, columns |-> Absent]}
    \cup {[action |-> "update", target |-> "column", columns |-> c] : c \in ColumnLists}

\* copy_from.CopyMapping.prep_insert: the columns inserted into
model_fields(st) ==
    [i \in DOMAIN st.mapping |-> column(st.mapping[i][1])]
    \o [i \in DOMAIN st.static_mapping |-> st.static_mapping[i][1]]

\* the expression selected for one mapped field: the cast, replaced by the
\* field's copy_template when it has one, replaced by the template of the
\* model's copy_<field>_template method when the model has one
temp_field(field, header, templates) ==
    LET field_type == IF db_type(field) \in {"serial", "bigserial"} THEN "integer"
                      ELSE db_type(field)
        string1 == Expr("cast", header, field_type, <<>>, NoLiteral)
        string2 == IF copy_template(field)
                   THEN Expr("field_template", header, "", <<>>, NoLiteral)
                   ELSE string1
    IN  IF field \in templates
        THEN Expr("model_template", header, "", <<>>, NoLiteral)
        ELSE string2

static_field(v) == Expr("literal", "", "", <<>>, Literal(TRUE, v.text))

temp_fields_static_first(st) ==
    [i \in DOMAIN st.static_mapping |-> static_field(st.static_mapping[i][2])]
    \o [i \in DOMAIN st.mapping |->
            temp_field(st.mapping[i][1], st.mapping[i][2], st.templates)]

temp_fields(st) ==
    [i \in DOMAIN st.mapping |->
        temp_field(st.mapping[i][1], st.mapping[i][2], st.templates)]
    \o [i \in DOMAIN st.static_mapping |-> static_field(st.static_mapping[i][2])]

\* insert_suffix: the columns of DO UPDATE SET <column> = excluded.<column>
update_columns(st) ==
    IF st.on_conflict.action = "update"
    THEN {column(c) : c \in columns(st.on_conflict)}
    ELSE {}

\* the package's CopyMapping: the (field, header) pairs in the order of the
\* file's headers; a header has the last field mapped to it, or none
inverse_mapping(mapping, h) ==
    LET at == {i \in DOMAIN mapping : mapping[i][2] = h}
    IN  IF at = {} THEN "None"
        ELSE mapping[CHOOSE i \in at : \A j \in at : j <= i][1]

field_header_crosswalk(st) ==
    LET pairs == [i \in DOMAIN InsertHeaders |->
                    <<inverse_mapping(st.mapping, InsertHeaders[i]), InsertHeaders[i]>>]
    IN  [exc |-> IF ~st.ignore_non_mapped_headers
                    /\ \E i \in DOMAIN pairs : pairs[i][1] = "None"
                 THEN Exc("ValueError", "Map does not include field")
                 ELSE NoExc,
         pairs |-> SelectSeq(pairs, LAMBDA pr : pr[1] # "None")]

sql_value(v) == Literal(v.type = "str", v.text)

get_value_mapping_sql(header, mapping) ==
    Expr("case", header, "",
         [i \in DOMAIN mapping |-> [src |-> sql_value(mapping[i][1]),
                                    dst |-> sql_value(mapping[i][2])]],
         NoLiteral)

\* field_value_mapping.get(field.name): the pairs, or none
value_mapping(st, field) ==
    LET at == {i \in DOMAIN st.field_value_mapping : st.field_value_mapping[i][1] = field}
    IN  IF at = {} THEN <<>> ELSE st.field_value_mapping[CHOOSE i \in at : TRUE][2]

package_model_fields(st) ==
    LET pairs == field_header_crosswalk(st).pairs
    IN  [i \in DOMAIN pairs |-> column(pairs[i][1])]
        \o [i \in DOMAIN st.static_mapping |-> column(st.static_mapping[i][1])]

package_temp_field(st, field, header) ==
    IF value_mapping(st, field) # <<>>
    THEN get_value_mapping_sql(header, value_mapping(st, field))
    ELSE IF field \in st.templates
    THEN Expr("model_template", header, "", <<>>, NoLiteral)
    ELSE IF copy_template(field)
    THEN Expr("field_template", header, "", <<>>, NoLiteral)
    ELSE Expr("header", header, "", <<>>, NoLiteral)

package_temp_fields(st) ==
    LET pairs == field_header_crosswalk(st).pairs
    IN  [i \in DOMAIN pairs |-> package_temp_field(st, pairs[i][1], pairs[i][2])]
        \o [i \in DOMAIN st.static_mapping |-> static_field(st.static_mapping[i][2])]

\* the constructor of the class: what it refuses
InsertMapping(st) ==
    IF st.cls = "copy_from"
    THEN IF st.field_value_mapping # <<>> \/ st.ignore_non_mapped_headers
         THEN Exc("TypeError", "unexpected keyword argument")
         ELSE NoExc
    ELSE IF Truthy(st.on_conflict)
    THEN Exc("TypeError", "unexpected keyword argument")
    ELSE field_header_crosswalk(st).exc

\* prep_insert() of the class
prep_insert_sql(st) ==
    IF st.cls = "copy_from"
    THEN [model_fields |-> model_fields(st), temp_fields |-> temp_fields(st),
          set |-> update_columns(st)]
    ELSE [model_fields |-> package_model_fields(st), temp_fields |-> package_temp_fields(st),
          set |-> {}]

\* a mapping of either class is constructed for a model that has the
\* template methods chosen
NewInsertMapping ==
    /\ Idle
    /\ ncalls < MaxCalls
    /\ \E cls \in Classes, templates \in SUBSET {"name", "number"}, mapping \in InsertMappings,
          static \in InsertStatics, fvm \in FieldValueMappings, ignore \in BOOLEAN,
          oc \in InsertConflicts :
         LET st == [cls |-> cls, templates |-> templates, mapping |-> mapping,
                    static_mapping |-> static, field_value_mapping |-> fvm,
                    ignore_non_mapped_headers |-> ignore, on_conflict |-> oc, sql |-> NoSql]
         IN  /\ \A i \in DOMAIN static : \A j \in DOMAIN mapping : static[i][1] # mapping[j][1]
             /\ statement' = st
             /\ IF InsertMapping(st) # NoExc
                THEN pc' = "raised" /\ result' = Raised(InsertMapping(st))
                ELSE pc' = "prep_insert" /\ result' = NoResult
    /\ call' = [NoCall EXCEPT !.op = "prep_insert"]
    /\ ncalls' = ncalls + 1
    /\ UNCHANGED <<atomic, db, csv_file, log, hooks, model, destination, chunks, relations,
                   loads>>

PrepInsert ==
    /\ pc = "prep_insert"
    /\ statement' = [statement EXCEPT !.sql = prep_insert_sql(statement)]
    /\ pc' = "returned"
    /\ result' = Returned(Len(prep_insert_sql(statement).temp_fields))
    /\ UNCHANGED <<call, atomic, db, csv_file, log, hooks, ncalls, model, destination, chunks,
                   relations, loads>>

\* the statement is used and the mapping dropped
UnwindInsert ==
    /\ Done
    /\ pc' = "idle"
    /\ call' = NoCall
    /\ result' = NoResult
    /\ statement' = NoStatement
    /\ UNCHANGED <<atomic, db, csv_file, log, hooks, ncalls, model, destination, chunks,
                   relations, loads>>

NextInsertSql ==
    \/ NewInsertMapping
    \/ PrepInsert
    \/ UnwindInsert

SpecInsertSql == Init /\ [][NextInsertSql]_vars

\* ------------------------------------------------------------ claims
StagingOps == {"drop_staging", "create_staging", "copy_in", "merge_insert"}

SaveOps(l) == SelectSeq(l, LAMBDA o : o.op \in StagingOps)

OpNames(l) == [i \in DOMAIN l |-> l[i].op]

Using == call.mapping.using

SaveReturned == pc \in {"restore_constraints", "restore_indexes", "returned"}

\* C1: once save has returned, the call has executed exactly drop-staging,
\* create-staging, copy-in, merge-insert, drop-staging, in this order, each
\* successfully and on the mapping's connection, and the staging table is gone
C1_SaveRunsFiveOperations ==
    SaveReturned =>
        /\ OpNames(SaveOps(log)) =
               <<"drop_staging", "create_staging", "copy_in", "merge_insert", "drop_staging">>
        /\ \A i \in DOMAIN SaveOps(log) :
               SaveOps(log)[i].ok /\ SaveOps(log)[i].on = Using
        /\ ~db[Using].staging.exists

C1_Witness ==
    /\ pc = "restore_constraints"
    /\ call.insert_count = 2
    /\ Len(log) > 5

\* the database the call loads into, as the caller names it
LoadAlias(a) == IF a.using = "None" THEN "default" ELSE a.using

NoConflictHandling(a) == ~a.ignore_conflicts /\ ~Truthy(a.on_conflict)

\* C3: a from_csv call without conflict handling that returns for a
\* well-formed file returns the number of data records, and the target holds
\* exactly those records more than before the call
C3_InsertCountIsRecordCount ==
    (pc = "returned" /\ call.args.csv.body = "ok" /\ NoConflictHandling(call.args)) =>
        /\ result.value = Len(call.args.csv.rows)
        /\ \A k \in Keys :
               db[Using].target[k] = call.before[Using].target[k]
                   + Count(call.args.csv.rows, k, DOMAIN call.args.csv.rows)

\* the call returned a count that differs from the size of the table
C3_Witness ==
    /\ pc = "returned"
    /\ NoConflictHandling(call.args)
    /\ Total(call.before[Using].target) > 0
    /\ result.value = 2
    /\ Total(db[Using].target) > 2

\* the (field, header) pairs the load maps
MappedPairs(a) ==
    IF a.mapping # <<>> THEN a.mapping
    ELSE [i \in DOMAIN a.csv.headers |-> <<a.csv.headers[i], a.csv.headers[i]>>]

\* the configuration errors of a call, by the exception each must raise
ConfigErrorTypes(a) ==
    (IF ~a.csv.exists THEN {"ValueError"} ELSE {})
    \cup (IF LoadAlias(a) = "sqlite" THEN {"TypeError"} ELSE {})
    \cup (IF a.csv.exists /\ \E i \in DOMAIN MappedPairs(a) :
                 MappedPairs(a)[i][2] \notin Range(a.csv.headers)
          THEN {"ValueError"} ELSE {})
    \cup (IF a.csv.exists /\ \E i \in DOMAIN MappedPairs(a) :
                 MappedPairs(a)[i][1] \notin ModelFields
          THEN {"FieldDoesNotExist"} ELSE {})
    \cup (IF \E i \in DOMAIN a.static_mapping : a.static_mapping[i][1] \notin ModelFields
          THEN {"ValueError"} ELSE {})

\* C2: a from_csv call made while an atomic block is open on the database it
\* loads into raises TransactionManagementError (or the error of a broken
\* configuration) with nothing executed when drop_constraints or drop_indexes
\* is set; with both unset it is not refused and executes no schema-altering
\* statement
C2_AtomicBlockRefused ==
    (call.op = "from_csv" /\ LoadAlias(call.args) \in atomic) =>
        IF call.args.drop_constraints \/ call.args.drop_indexes
        THEN /\ pc = "raised"
             /\ result.exc.type \in {"TransactionManagementError", "NotSupportedError"}
                    \cup ConfigErrorTypes(call.args)
             /\ log = <<>>
        ELSE /\ result.exc.type # "TransactionManagementError"
             /\ \A i \in DOMAIN log : log[i].op \notin {"remove", "add"}

\* C4: a from_csv call with a missing path, a backend that is not
\* PostgreSQL, an unknown mapped header, an unknown mapped field or an unknown
\* static field raises the matching error (unless the transaction or version
\* guard raised first) with no statement executed and the database unchanged
C4_ConfigErrorsBeforeDatabase ==
    (call.op = "from_csv" /\ ConfigErrorTypes(call.args) # {}) =>
        /\ pc = "raised"
        /\ result.exc.type \in ConfigErrorTypes(call.args)
               \cup {"TransactionManagementError", "NotSupportedError"}
        /\ log = <<>>
        /\ db = call.before

\* an unknown mapped field stopped a call that was about to drop constraints
C4_Witness ==
    /\ pc = "raised"
    /\ call.op = "from_csv"
    /\ result.exc.type = "FieldDoesNotExist"
    /\ call.args.drop_constraints
    /\ call.args.drop_indexes
    /\ model.declared \cap ConstraintObjs # {}

\* the conflict request as CopyMapping takes it
Requested(a) ==
    IF a.ignore_conflicts THEN [action |-> "ignore", target |-> Absent, columns |-> Absent]
    ELSE a.on_conflict

BadConflict(a) ==
    /\ Truthy(Requested(a))
    /\ \/ Requested(a).action \notin {"ignore", "update"}
       \/ /\ Requested(a).action = "update"
          /\ Requested(a).target = Absent \/ Requested(a).columns = Absent

\* C5: a from_csv call whose conflict request names an unrecognized action,
\* or an update without target or columns, drops no constraint or index,
\* creates no staging table and copies no data
C5_BadConflictRejectedFirst ==
    (call.op = "from_csv" /\ BadConflict(call.args)) =>
        \A i \in DOMAIN log :
            ~(log[i].ok /\ log[i].op \in {"remove", "create_staging", "copy_in"})

FailedAt(i) == log[i].op \in {"copy_in", "merge_insert"} /\ ~log[i].ok

Removed == {log[j].obj : j \in {i \in DOMAIN log : log[i].op = "remove" /\ log[i].ok}}

\* C6: when copy-in or merge-insert has failed, the call has raised the
\* engine's error as it was, nothing was executed after the failed statement,
\* the staging table and the copied rows are still there, the target is as the
\* call found it and what the call dropped is still dropped
C6_NoCompensation ==
    \A i \in DOMAIN log : FailedAt(i) =>
        /\ i = Len(log)
        /\ pc = "raised"
        /\ result.exc =
              IF log[i].op = "copy_in"
              THEN ExecCopyIn(db[Using], call.mapping.headers, call.mapping.csv, csv_file).exc
              ELSE ExecMergeInsert(db[Using], call.mapping.mapping,
                                   insert_suffix(call.mapping.on_conflict, model).suffix).exc
        /\ result.exc.type \in {"DataError", "IntegrityError", "ProgrammingError"}
        /\ db[Using].staging.exists
        /\ log[i].op = "merge_insert" => db[Using].staging.rows = call.mapping.csv.rows
        /\ db[Using].target = call.before[Using].target
        /\ db[connection].inforce = call.before[connection].inforce \ Removed

\* merge-insert failed in a call that had dropped a constraint
C6_Witness ==
    /\ pc = "raised"
    /\ log # <<>>
    /\ log[Len(log)].op = "merge_insert"
    /\ ~log[Len(log)].ok
    /\ Removed \cap ConstraintObjs # {}

\* C7: when from_csv has returned, every constraint and index in force
\* before the call is in force
C7_SuspensionIsRestored ==
    pc = "returned" =>
        \A a \in PgAliases : call.before[a].inforce \subseteq db[a].inforce

PassOrder ==
    <<"unique_together", "fk_constraint", "constraint", "index_together", "field_index", "index">>

\* the schema objects a pass over the given kinds goes through, in order
PassObjs(kinds) == SelectSeq(PassOrder, LAMBDA o : o \in model.declared /\ o \in kinds)

Dropping ==
    (IF call.drop_constraints THEN PassObjs(ConstraintObjs) ELSE <<>>)
    \o (IF call.drop_indexes THEN PassObjs(IndexObjs) ELSE <<>>)

Attempts(method) ==
    LET l == SelectSeq(log, LAMBDA o : o.op = method)
    IN  [i \in DOMAIN l |-> l[i].obj]

PastDrops ==
    \/ pc \in {"create", "copy", "insert", "drop", "restore_constraints",
               "restore_indexes", "returned"}
    \/ pc = "raised" /\ \E i \in DOMAIN log : log[i].op \in StagingOps

\* C8: once the drop passes are over, every drop action of the model has been
\* attempted, in order, whichever were refused; once from_csv has returned the
\* same holds of the restore actions; and no error of from_csv is that of a
\* schema action
C8_RejectedEditsAreSkipped ==
    /\ PastDrops => Attempts("remove") = Dropping
    /\ pc = "returned" => Attempts("add") = Dropping
    /\ pc = "raised" => result.exc.type # "DatabaseError"

\* a refused drop was followed by the next drop of the same pass
C8_Witness ==
    /\ pc = "returned"
    /\ \E i \in DOMAIN log :
         /\ i < Len(log)
         /\ log[i] = Op("remove", "unique_together", connection, FALSE)
         /\ log[i + 1] = Op("remove", "fk_constraint", connection, TRUE)

\* C9: a from_csv call with ignore_conflicts that loads rows already stored
\* once each, into a table whose constraints are in force, returns 0 and leaves
\* one row per key
C9_IgnoreConflictsStoresOneRow ==
    (/\ pc = "returned"
     /\ call.args.ignore_conflicts
     /\ call.before[Using].inforce = model.declared
     /\ \A k \in Keys : call.before[Using].target[k] =
            IF k \in Range(call.args.csv.rows) THEN 1 ELSE 0) =>
        /\ result.value = 0
        /\ NoDuplicates(db[Using].target)

\* C10: whenever create has been called, whatever the session's staging
\* table held before, the call returned and left an empty staging table
C10_CreateIsRepeatable ==
    (pc = "steps" /\ call.op = "create") =>
        /\ result.status = "returned"
        /\ db[Using].staging.exists
        /\ db[Using].staging.rows = <<>>

\* create ran on a staging table that a copy had filled
C10_Witness ==
    /\ pc = "steps"
    /\ call.op = "create"
    /\ Len(log) >= 5
    /\ OpNames(SubSeq(log, Len(log) - 2, Len(log))) =
           <<"copy_in", "drop_staging", "create_staging">>
    /\ log[Len(log) - 2].ok
    /\ Len(call.mapping.csv.rows) > 0

\* the staging statements of the call so far, all successful, are the first n
\* of the lifecycle drop, create, copy, insert, drop
AfterStep(n) ==
    /\ call.op = "from_csv"
    /\ Len(SaveOps(log)) = n
    /\ OpNames(SaveOps(log)) = SubSeq(
           <<"drop_staging", "create_staging", "copy_in", "merge_insert", "drop_staging">>, 1, n)
    /\ \A i \in DOMAIN SaveOps(log) : SaveOps(log)[i].ok

RecordCount == Len(call.args.csv.rows)

\* C11 as stated: after create the staging table is empty and the target
\* holds its T rows, after copy the staging table holds the N records and the
\* target its T rows, after insert the target holds T+N rows, after drop the
\* staging table is gone
C11_StagingLifecycle ==
    /\ AfterStep(2) => /\ db[Using].staging.exists
                       /\ db[Using].staging.rows = <<>>
                       /\ db[Using].target = call.before[Using].target
    /\ AfterStep(3) => /\ db[Using].staging.rows = call.args.csv.rows
                       /\ Len(db[Using].staging.rows) = RecordCount
                       /\ db[Using].target = call.before[Using].target
    /\ AfterStep(4) => Total(db[Using].target) =
                           Total(call.before[Using].target) + RecordCount
    /\ AfterStep(5) => ~db[Using].staging.exists

\* C11 amended: the same, with T+N rows after insert when the load has no
\* conflict handling, and between T and T+N rows, none of the T lost, when
\* it has
C11_StagingLifecycleAmended ==
    /\ AfterStep(2) => /\ db[Using].staging.exists
                       /\ db[Using].staging.rows = <<>>
                       /\ db[Using].target = call.before[Using].target
    /\ AfterStep(3) => /\ db[Using].staging.rows = call.args.csv.rows
                       /\ Len(db[Using].staging.rows) = RecordCount
                       /\ db[Using].target = call.before[Using].target
    /\ AfterStep(4) =>
          IF NoConflictHandling(call.args)
          THEN Total(db[Using].target) = Total(call.before[Using].target) + RecordCount
          ELSE /\ \A k \in Keys : db[Using].target[k] >= call.before[Using].target[k]
               /\ Total(db[Using].target) <= Total(call.before[Using].target) + RecordCount
    /\ AfterStep(5) => ~db[Using].staging.exists

\* insert has just added two records to a target that already held rows
C11_Witness ==
    /\ AfterStep(4)
    /\ pc = "drop"
    /\ NoConflictHandling(call.args)
    /\ Total(call.before[Using].target) > 0
    /\ RecordCount = 2
    /\ Total(db[Using].target) = Total(call.before[Using].target) + 2

\* the names of the hooks that ran when the call had executed j statements
HooksAt(j) ==
    LET hs == SelectSeq(hooks, LAMBDA h : h.at = j)
    IN  [i \in DOMAIN hs |-> hs[i].name]

\* the statements and hooks of the call so far in the order they happened
RECURSIVE History(_)
History(j) ==
    IF j = 0 THEN HooksAt(0)
    ELSE History(j - 1) \o <<log[j].op>> \o HooksAt(j)

HookNames == {"pre_copy", "post_copy", "pre_insert", "post_insert"}

\* what save has done so far: staging statements and hooks
SaveHistory == SelectSeq(History(Len(log)), LAMBDA e : e \in StagingOps \cup HookNames)

SaveOrder ==
    <<"drop_staging", "create_staging", "pre_copy", "copy_in", "post_copy",
      "pre_insert", "merge_insert", "post_insert", "drop_staging">>

Copied == \E i \in DOMAIN log : log[i].op = "copy_in" /\ log[i].ok

\* C13: once copy-in is done, a source the mapping opened from a path is
\* closed and a file object the caller passed in is still open
C13_OnlyOwnedSourceIsClosed ==
    (call.op = "from_csv" /\ Copied) =>
        /\ csv_file.owner = "mapping" => csv_file.state = "closed"
        /\ csv_file.owner = "caller" => csv_file.state = "open"

\* the constructor of the mapping has returned
Constructed == call.mapping.using # "none"

\* C14: the mapping's headers are the fields of the first record of the
\* source; until copy-in the source is open at offset 0, in the mode the
\* caller opened it in; and the staging table that copy-in has filled holds
\* every data record of the file
C14_HeadersReadThenRewound ==
    (call.op = "from_csv" /\ Constructed) =>
        /\ call.mapping.headers = call.args.csv.headers
        /\ ~(\E i \in DOMAIN log : log[i].op = "copy_in") =>
               /\ csv_file.state = "open"
               /\ csv_file.pos = 0
               /\ csv_file.mode = IF call.args.csv.given = "binary" THEN "binary" ELSE "text"
        /\ (Copied /\ db[Using].staging.exists) =>
               db[Using].staging.rows = call.args.csv.rows

\* a file object opened in binary mode was copied in whole
C14_Witness ==
    /\ pc = "insert"
    /\ call.args.csv.given = "binary"
    /\ call.mapping.headers = <<"NAME", "NUMBER">>
    /\ db[Using].staging.rows = <<"k1", "k2">>

\* a to_csv call is over
Exported == call.op = "to_csv" /\ Done

\* every field argument names a field or an annotation
Resolvable(a) ==
    \A i \in DOMAIN a.fields :
        a.fields[i] \in Range(concrete_fields) \cup Range(a.annotations)

\* the payloads the call handed over, wherever it put them
Delivered == IF call.args.csv_path = "None" THEN result.value ELSE destination.content

\* C15: a to_csv call with resolvable fields returns, and the rows of the
\* table are delivered once: to the object passed, left open, with None
\* returned; to the file at the path, closed, with None returned; or to the
\* caller as the returned value with nothing written elsewhere
C15_PayloadDeliveredOnce ==
    (Exported /\ Resolvable(call.args)) =>
        /\ pc = "returned"
        /\ Len(Delivered) = 1
        /\ Delivered[1].rows = db[DEFAULT_DB_ALIAS].target
        /\ call.args.csv_path \in {"StringIO", "BytesIO"} =>
               /\ destination.kind = call.args.csv_path
               /\ destination.state = "open"
               /\ result.value = None
        /\ call.args.csv_path = "path" =>
               /\ destination.kind = "path"
               /\ destination.state = "closed"
               /\ result.value = None
        /\ call.args.csv_path = "None" => destination = NoDestination

\* the columns an export of the queryset is to have
ExpectedColumns(a) ==
    IF a.fields = <<>> THEN concrete_fields \o a.annotations ELSE a.fields

\* C19: the fields a to_csv call selects are the concrete fields in
\* declaration order followed by the annotations when no field is given, and
\* the given fields in the given order otherwise, and those are the columns
\* of what it delivers
C19_ExportedColumns ==
    (Exported /\ Resolvable(call.args)) =>
        /\ SelectedFields(CopyToQuery(call.args)) = ExpectedColumns(call.args)
        /\ pc = "returned"
        /\ Len(Delivered) = 1
        /\ Delivered[1].columns = ExpectedColumns(call.args)

RECURSIVE join(_)
join(cs) == IF cs = <<>> THEN <<>> ELSE Head(cs) \o join(Tail(cs))

\* C16: copy_to into a text destination writes the decoding of the whole
\* byte stream however the stream is cut into chunks: no read raises, and
\* what has been written after each read is a prefix of that text, all of it
\* once copy_to has returned
C16_ChunkedDecoding ==
    (call.op = "copy_to" /\ destination.kind = "StringIO") =>
        LET whole == decode(join(chunks)).text
        IN  /\ result.status # "raised"
            /\ Len(destination.content) <= Len(whole)
            /\ destination.content = SubSeq(whole, 1, Len(destination.content))
            /\ pc = "returned" => destination.content = whole

\* the records of the source that collide with a row the load found
Hits(old) == {j \in DOMAIN relations.csv : relations.csv[j].NAME = old.name}

Inserted == \E i \in DOMAIN log : log[i].op = "merge_insert" /\ log[i].ok

\* C17: a load leaves every row it found as it was, except that with
\* on_conflict action update a row that a record of the source collides with
\* has exactly the named columns set to that record's values and all its
\* other columns as before
C17_OnlyNamedColumnsOverwritten ==
    call.op = "save" =>
        /\ Len(relations.target) >= Len(relations.before)
        /\ \A i \in DOMAIN relations.before :
             LET old == relations.before[i]
                 new == relations.target[i]
                 named == columns(call.mapping.on_conflict)
             IN  IF Inserted /\ call.mapping.on_conflict.action = "update" /\ Hits(old) # {}
                 THEN \E j \in Hits(old) :
                        LET incoming == Excluded(prep_insert(call.mapping, model),
                                                 relations.csv[j], 0)
                        IN  \A c \in Columns :
                               new[c] = IF c \in named THEN incoming[c] ELSE old[c]
                 ELSE new = old

\* an update load has overwritten the number of a row and left its static
\* value, which the source also supplies, as it was
C17_Witness ==
    /\ call.op = "save" /\ pc = "returned"
    /\ call.mapping.on_conflict.action = "update"
    /\ call.mapping.static_mapping = GoodStatic
    /\ \E i \in DOMAIN relations.before :
         /\ Hits(relations.before[i]) # {}
         /\ relations.target[i].number # relations.before[i].number
         /\ relations.target[i].static_val = relations.before[i].static_val
         /\ relations.target[i].static_val # "1"

\* the headers of the file that no entry of the mapping given refers to
NonMapped(a) ==
    IF a.mapping = <<>> THEN {}
    ELSE {h \in Range(a.csv.headers) : \A i \in DOMAIN a.mapping : a.mapping[i][2] # h}

\* C18: a from_csv call whose mapping leaves a header of the file out is
\* refused when the mapping is validated: it raises with no statement executed
C18_NonMappedHeaderRejected ==
    (call.op = "from_csv" /\ NonMapped(call.args) # {}) =>
        /\ pc = "raised"
        /\ log = <<>>

\* the positions in the call's history of the schema actions of a method,
\* and of the staging statements
SchemaActions(method) == {i \in DOMAIN log : log[i].op = method}

StagingStatements == {i \in DOMAIN log : log[i].op \in StagingOps}

KindDropped(obj) ==
    /\ obj \in ConstraintObjs => call.drop_constraints
    /\ obj \in IndexObjs => call.drop_indexes

\* C20: in a from_csv call every drop action comes before the first staging
\* statement and every restore action after the last one, which is the final
\* drop of the staging table; in both passes the constraints come before the
\* indexes; a restore action is of a kind this call dropped; and a call that
\* drops neither kind runs no drop and no restore action
C20_DropsBeforeLoadRestoresAfter ==
    call.op = "from_csv" =>
        /\ \A i \in SchemaActions("remove"), j \in StagingStatements : i < j
        /\ \A i \in SchemaActions("remove"), j \in SchemaActions("add") : i < j
        /\ \A i \in SchemaActions("add"), j \in StagingStatements : j < i
        /\ SchemaActions("add") # {} =>
             /\ StagingStatements # {}
             /\ \E j \in StagingStatements :
                  /\ log[j] = Op("drop_staging", "temp", Using, TRUE)
                  /\ \A k \in StagingStatements : k <= j
                  /\ \E k \in StagingStatements : k < j /\ log[k].op = "merge_insert"
        /\ \A m \in {"remove", "add"} : \A i \in SchemaActions(m), j \in SchemaActions(m) :
             (log[i].obj \in ConstraintObjs /\ log[j].obj \in IndexObjs) => i < j
        /\ \A i \in SchemaActions("remove") \cup SchemaActions("add") : KindDropped(log[i].obj)
        /\ \A i \in SchemaActions("add") :
             \E j \in SchemaActions("remove") :
                (log[j].obj \in ConstraintObjs) = (log[i].obj \in ConstraintObjs)
        /\ (~call.drop_constraints /\ ~call.drop_indexes) =>
             SchemaActions("remove") \cup SchemaActions("add") = {}

\* a call that dropped constraints but not indexes has loaded and restored
\* the constraints only
C20_Witness ==
    /\ call.op = "from_csv" /\ pc = "returned"
    /\ call.drop_constraints /\ ~call.drop_indexes
    /\ IndexActions(model) # <<>>
    /\ \E i \in SchemaActions("remove") : log[i].ok
    /\ StagingStatements # {}
    /\ SchemaActions("add") # {}

AllSucceeded == \A i \in DOMAIN log : log[i].ok

\* C21: in a from_csv call that loads over the manager's connection and whose
\* schema actions all succeed, no uniqueness rule of the model is in force on
\* the target once drop_constraints has run, and every one of them is in
\* force again once the call has returned
C21_DropRemovesEveryUniquenessRule ==
    (call.op = "from_csv" /\ call.drop_constraints /\ Using = connection /\ AllSucceeded) =>
        /\ pc = "drop_indexes" => db[connection].inforce \cap UniqueObjs = {}
        /\ pc = "returned" => model.declared \cap UniqueObjs \subseteq db[connection].inforce

\* the merge-insert of the call carries an ON CONFLICT clause
CarriesOnConflict ==
    /\ Constructed
    /\ insert_suffix(call.mapping.on_conflict, model).exc = NoExc
    /\ insert_suffix(call.mapping.on_conflict, model).suffix # "none"

\* C22: a from_csv call whose merge-insert carries an ON CONFLICT clause
\* does not drop constraints: its drop_constraints is off and its history
\* holds no drop of a constraint
C22_OnConflictKeepsConstraints ==
    (call.op = "from_csv" /\ CarriesOnConflict) =>
        /\ ~call.drop_constraints
        /\ \A i \in SchemaActions("remove") : log[i].obj \notin ConstraintObjs

\* C23: every statement and schema action of a from_csv call acts on the
\* connection of the alias the call loads into, no other database has its
\* schema changed, and the call is refused for an atomic block only when the
\* block is open on that connection
C23_EverythingOnTheGivenAlias ==
    call.op = "from_csv" =>
        /\ \A i \in DOMAIN log : log[i].on = LoadAlias(call.args)
        /\ \A a \in PgAliases \ {LoadAlias(call.args)} : db[a].inforce = call.before[a].inforce
        /\ result.exc.type = "TransactionManagementError" => LoadAlias(call.args) \in atomic

\* the loader has dropped the constraints and has not yet restored them
Suspending(p) == loads[p].pc \in {"drop_indexes", "save", "restore_constraints"}

\* C24: while a loader is between its drop and its restore no constraint of
\* the model that drop_constraints removes is in force, whatever the other
\* loader does; and when both loaders have returned every constraint and
\* index of the model is in force
C24_SuspensionBelongsToOneLoad ==
    /\ \A p \in Loaders :
         Suspending(p) => db[connection].inforce \cap Range(ConstraintActions(model)) = {}
    /\ (\A p \in Loaders : loads[p].pc = "returned") =>
          model.declared \subseteq db[connection].inforce

\* C25: a from_csv call raises TransactionManagementError only when it would
\* go on to drop constraints or indexes, that is when drop_indexes is set or
\* drop_constraints is still set after the on_conflict argument is looked at
C25_RefusedOnlyWhenDropping ==
    (call.op = "from_csv" /\ result.exc.type = "TransactionManagementError") =>
        \/ call.args.drop_indexes
        \/ adjust_drop_constraints(call.args, model)

Generated == call.op = "prep_insert" /\ pc = "returned"

\* the (field, header) pairs the statement has an expression for, in order
Pairs(st) == IF st.cls = "copy_from" THEN st.mapping ELSE field_header_crosswalk(st).pairs

\* the kind of expression the resolution order selects for a field
Selected(st, field) ==
    IF value_mapping(st, field) # <<>> THEN "case"
    ELSE IF field \in st.templates THEN "model_template"
    ELSE IF copy_template(field) THEN "field_template"
    ELSE "cast"

\* C26: in a generated merge-insert the expression of every mapped column is
\* the first that applies of: the CASE chain of its field-value mapping, the
\* template of the model's method, the field's copy_template, the cast of
\* the header to the column's type (integer for a serial column)
C26_ExpressionResolutionOrder ==
    Generated =>
        \A i \in DOMAIN Pairs(statement) :
            LET e == statement.sql.temp_fields[i]
                field == Pairs(statement)[i][1]
            IN  /\ e.kind = Selected(statement, field)
                /\ e.header = Pairs(statement)[i][2]
                /\ e.kind = "cast" =>
                     e.type = IF db_type(field) = "serial" THEN "integer" ELSE db_type(field)

GeneratedBy(cls) == Generated /\ statement.cls = cls

\* C27: in a merge-insert generated by copy_from.CopyMapping the column list
\* and the SELECT list have the same length; position by position they are
\* the mapped fields in mapping order, each fed from its own header, then the
\* static fields in static-mapping order, each fed its own value
C27_ColumnsAndExpressionsAligned ==
    GeneratedBy("copy_from") =>
        LET sql == statement.sql
            n == Len(statement.mapping)
            k == Len(statement.static_mapping)
        IN  /\ Len(sql.model_fields) = n + k
            /\ Len(sql.temp_fields) = n + k
            /\ \A i \in 1..n :
                 /\ sql.model_fields[i] = column(statement.mapping[i][1])
                 /\ sql.temp_fields[i].kind # "literal"
                 /\ sql.temp_fields[i].header = statement.mapping[i][2]
            /\ \A j \in 1..k :
                 /\ sql.model_fields[n + j] \in {statement.static_mapping[j][1],
                                                 column(statement.static_mapping[j][1])}
                 /\ sql.temp_fields[n + j].kind = "literal"
                 /\ sql.temp_fields[n + j].literal.text = statement.static_mapping[j][2].text

\* a statement for two fields fed from one header and two static fields
C27_Witness ==
    /\ GeneratedBy("copy_from")
    /\ Len(statement.mapping) = 2
    /\ statement.mapping[1][2] = statement.mapping[2][2]
    /\ Len(statement.static_mapping) = 2
    /\ Len(statement.sql.temp_fields) = 4

\* C28: in a generated merge-insert every literal, the source and stored
\* values of a field-value mapping and the values of a static mapping, is
\* quoted exactly when the value given is a string
C28_LiteralsQuotedByType ==
    Generated =>
        LET sql == statement.sql
            n == Len(Pairs(statement))
        IN  /\ \A i \in 1..n :
                 LET given == value_mapping(statement, Pairs(statement)[i][1])
                 IN  sql.temp_fields[i].kind = "case" =>
                        \A c \in DOMAIN given :
                           /\ sql.temp_fields[i].cases[c].src.quoted = (given[c][1].type = "str")
                           /\ sql.temp_fields[i].cases[c].dst.quoted = (given[c][2].type = "str")
            /\ \A j \in DOMAIN statement.static_mapping :
                 sql.temp_fields[n + j].literal.quoted
                    = (statement.static_mapping[j][2].type = "str")

\* C29: in a merge-insert generated by copy_from.CopyMapping every column of
\* the column list, mapped or static, and every column of the DO UPDATE SET
\* list is the database column of its field
C29_PhysicalColumnNames ==
    GeneratedBy("copy_from") =>
        LET sql == statement.sql
            n == Len(statement.mapping)
        IN  /\ \A i \in 1..n : sql.model_fields[i] = column(statement.mapping[i][1])
            /\ \A j \in DOMAIN statement.static_mapping :
                 sql.model_fields[n + j] = column(statement.static_mapping[j][1])
            /\ statement.on_conflict.action = "update" =>
                 sql.set = {column(c) : c \in columns(statement.on_conflict)}

\* C30: no to_csv call, whatever its arguments, ends with the AttributeError
\* of an attribute of the query that the compiler reads and to_csv left unset
C30_EveryOptionAttributeAssigned ==
    Exported => result.exc.type # "AttributeError"

====
